---- MODULE Spec2Model ----
(***************************************************************************)
(* Model of the uc-intg-synology-system polling/display engine: the        *)
(* dashboard and camera media-player entities, their polling-loop tasks,   *)
(* the command handlers and the hub lifecycle handlers, as asyncio         *)
(* coroutines interleaved at their real suspension points.                 *)
(***************************************************************************)
EXTENDS Integers, Sequences, FiniteSets, TLC

\* ------------------------------------------------------------- bounds
\* Task objects alive at once (a finished task nobody references is collected).
MaxTasks == 2
\* Handler coroutines suspended at an await at once.
MaxHandlers == 1
\* Task objects of the monitoring loop alive at once.
MaxMonitors == 2
\* The consecutive failures the monitoring loop is followed up to.
MaxFailures == 4
\* The sources a registry may hold beyond the eighteen of get_enabled_sources.
MaxExtra == 9
\* The seconds the clock of the snapshot cache is followed for.
MaxTime == 32

\* ------------------------------------------------------------- names
Entities == {"dashboard", "camera"}
\* The entities a command is addressed to.
Units == Entities \cup {"remote"}

None == "<none>"

\* ucapi.media_player.Commands
SELECT_SOURCE == "select_source"
ON == "on"
OFF == "off"
VOLUME_UP == "volume_up"
VOLUME_DOWN == "volume_down"

\* media_player.py SUPPRESSED_COMMANDS
SUPPRESSED_COMMANDS ==
    {"play_pause", "stop", "shuffle", "repeat", "next", "previous",
     "fast_forward", "rewind", "seek", "record", "my_recordings", "eject",
     "open_close"}

\* camera_media_player.py SUPPRESSED_COMMANDS
CAMERA_SUPPRESSED_COMMANDS ==
    {"play_pause", "stop", "shuffle", "repeat", "next", "previous",
     "fast_forward", "rewind", "seek", "record", "my_recordings", "eject",
     "open_close"}

\* media_player.py handle_command: the custom refresh identifiers
CUSTOM_COMMANDS == {"REFRESH_STATUS", "UPDATE_DISPLAY", "SYSTEM_INFO"}

\* Identifiers of ucapi.media_player.Commands that no branch names.
UnhandledCommands == {"mute_toggle", "volume"}

CommandIds ==
    {SELECT_SOURCE, ON, OFF, VOLUME_UP, VOLUME_DOWN} \cup SUPPRESSED_COMMANDS
        \cup CUSTOM_COMMANDS \cup UnhandledCommands

\* StatusCodes
OK == "OK"
BAD_REQUEST == "BAD_REQUEST"
NOT_IMPLEMENTED == "NOT_IMPLEMENTED"
SERVER_ERROR == "SERVER_ERROR"
\* the handler ended by an exception leaving it
RAISED == "RAISED"

\* States
PAUSED == "PAUSED"
PLAYING == "PLAYING"
UNAVAILABLE == "UNAVAILABLE"

\* ------------------------------------------------------------- source registry
\* config.py get_enabled_sources: the ordered key list for a feature-flag record
\* and a set of detected packages (a dict keeps the first insertion place of a key).
AppendNew(seq, k) ==
    IF \E i \in 1..Len(seq) : seq[i] = k THEN seq ELSE Append(seq, k)

RECURSIVE AppendAll(_, _)
AppendAll(seq, ks) ==
    IF ks = <<>> THEN seq ELSE AppendAll(AppendNew(seq, Head(ks)), Tail(ks))

EnhancedKeys ==
    <<"THERMAL_STATUS", "CACHE_STATUS", "RAID_STATUS", "VOLUME_STATUS",
      "UPS_STATUS", "HARDWARE_MONITOR", "DRIVE_HEALTH", "POWER_MANAGEMENT",
      "CACHE_PERFORMANCE", "PACKAGE_MANAGER", "USER_SESSIONS">>

\* "if <condition>: sources[k] = <name>"
AppendIf(cond, seq, k) == IF cond THEN AppendNew(seq, k) ELSE seq

\* "if enabled_features.get('enhanced_monitoring'): sources.update({...})"
AppendAllIf(cond, seq, ks) == IF cond THEN AppendAll(seq, ks) ELSE seq

\* "enabled_features.get(k, True)": a flag the record lacks counts as set.
flag(f, k) == IF k \in DOMAIN f THEN f[k] ELSE TRUE

\* A registry that would list the package sources on the flag alone.
sources_ungated(f, pk) ==
    AppendIf(flag(f, "docker_monitoring"),
      AppendIf(flag(f, "surveillance_monitoring"),
        AppendAllIf(flag(f, "enhanced_monitoring"),
          AppendNew(
            AppendIf(flag(f, "security_monitoring"),
              AppendIf(flag(f, "network_monitoring"),
                       <<"SYSTEM_OVERVIEW", "STORAGE_STATUS">>,
                       "NETWORK_STATS"),
              "SECURITY_STATUS"),
            "SERVICES_STATUS"),
          EnhancedKeys),
        "SURVEILLANCE_STATUS"),
      "DOCKER_STATUS")

\* A registry that would leave out the enhanced bundle when no package was
\* detected.
sources_enhanced_gated(f, pk) ==
    AppendIf(flag(f, "docker_monitoring") /\ "Docker" \in pk,
      AppendIf(flag(f, "surveillance_monitoring") /\ "SurveillanceStation" \in pk,
        AppendAllIf(flag(f, "enhanced_monitoring") /\ pk # {},
          AppendNew(
            AppendIf(flag(f, "security_monitoring"),
              AppendIf(flag(f, "network_monitoring"),
                       <<"SYSTEM_OVERVIEW", "STORAGE_STATUS">>,
                       "NETWORK_STATS"),
              "SECURITY_STATUS"),
            "SERVICES_STATUS"),
          EnhancedKeys),
        "SURVEILLANCE_STATUS"),
      "DOCKER_STATUS")

\* A registry that would list the network source whatever its flag is.
sources_network_fixed(f, pk) ==
    AppendIf(flag(f, "docker_monitoring") /\ "Docker" \in pk,
      AppendIf(flag(f, "surveillance_monitoring") /\ "SurveillanceStation" \in pk,
        AppendAllIf(flag(f, "enhanced_monitoring"),
          AppendNew(
            AppendIf(flag(f, "security_monitoring"),
                     <<"SYSTEM_OVERVIEW", "STORAGE_STATUS", "NETWORK_STATS">>,
                     "SECURITY_STATUS"),
            "SERVICES_STATUS"),
          EnhancedKeys),
        "SURVEILLANCE_STATUS"),
      "DOCKER_STATUS")

get_enabled_sources(f, pk) ==
    AppendIf(flag(f, "surveillance_monitoring") /\ "SurveillanceStation" \in pk,
      AppendIf(flag(f, "docker_monitoring") /\ "Docker" \in pk,
        AppendIf(flag(f, "surveillance_monitoring") /\ "SurveillanceStation" \in pk,
          AppendAllIf(flag(f, "enhanced_monitoring"),
            AppendNew(
              AppendIf(flag(f, "security_monitoring"),
                AppendIf(flag(f, "network_monitoring"),
                         <<"SYSTEM_OVERVIEW", "STORAGE_STATUS">>,
                         "NETWORK_STATS"),
                "SECURITY_STATUS"),
              "SERVICES_STATUS"),
            EnhancedKeys),
          "SURVEILLANCE_STATUS"),
        "DOCKER_STATUS"),
      "SURVEILLANCE_STATUS")

\* A registry that would show both cache sources under one name.
names_clash(k) ==
    CASE k = "CACHE_STATUS" -> "SSD Cache"
      [] k = "CACHE_PERFORMANCE" -> "SSD Cache"
      [] OTHER -> k

\* config.py get_enabled_sources: the display name registered for a key.
DisplayName(k) ==
    CASE k = "SYSTEM_OVERVIEW" -> "System Overview"
      [] k = "STORAGE_STATUS" -> "Storage Status"
      [] k = "NETWORK_STATS" -> "Network Statistics"
      [] k = "SECURITY_STATUS" -> "Security Status"
      [] k = "SERVICES_STATUS" -> "Services Status"
      [] k = "THERMAL_STATUS" -> "Temperature Monitor"
      [] k = "CACHE_STATUS" -> "SSD Cache"
      [] k = "RAID_STATUS" -> "RAID Health"
      [] k = "VOLUME_STATUS" -> "Volume Usage"
      [] k = "UPS_STATUS" -> "UPS Monitor"
      [] k = "HARDWARE_MONITOR" -> "Hardware Monitor"
      [] k = "DRIVE_HEALTH" -> "Drive Health"
      [] k = "POWER_MANAGEMENT" -> "Power Management"
      [] k = "CACHE_PERFORMANCE" -> "Cache Performance"
      [] k = "PACKAGE_MANAGER" -> "Package Manager"
      [] k = "USER_SESSIONS" -> "User Sessions"
      [] k = "SURVEILLANCE_STATUS" -> "Surveillance Station"
      [] k = "DOCKER_STATUS" -> "Docker Containers"
      [] OTHER -> k

\* The configuration the engine runs under: network, security and enhanced
\* monitoring switched off, Surveillance Station detected.
EngineFeatures ==
    [network_monitoring |-> FALSE, security_monitoring |-> FALSE,
     enhanced_monitoring |-> FALSE, docker_monitoring |-> TRUE,
     surveillance_monitoring |-> TRUE]

EnginePackages == {"SurveillanceStation"}

\* media_player.py _get_enabled_sources: at most 25 sources, in registration order.
SourceLimit == 25

\* A limit that would keep what its warning says, 20 sources.
limit_as_logged(s) ==
    IF Len(s) > SourceLimit THEN SubSeq(s, 1, 20) ELSE s

\* "if len(sources) > 25: sources = dict(list(sources.items())[:25])"
limit_sources(s) ==
    IF Len(s) > SourceLimit THEN SubSeq(s, 1, SourceLimit) ELSE s

DashboardSources(f, pk) == limit_sources(get_enabled_sources(f, pk))

\* SynologySystemDashboard._sources for the engine's configuration.
sources == DashboardSources(EngineFeatures, EnginePackages)

SourceNames == {DisplayName(sources[i]) : i \in 1..Len(sources)}

\* media_player.py _update_current_data: display name -> key, first match in
\* registration order; a name that is no display name is used as the key itself.
SourceKeyIn(srcs, name) ==
    IF \E i \in 1..Len(srcs) : DisplayName(srcs[i]) = name
    THEN srcs[CHOOSE i \in 1..Len(srcs) :
                 /\ DisplayName(srcs[i]) = name
                 /\ \A j \in 1..(i - 1) : DisplayName(srcs[j]) # name]
    ELSE name

\* The same for the entity of the engine's configuration.
SourceKey(name) == SourceKeyIn(sources, name)

\* media_player.py _update_current_data: the keys of fetcher_map / updater_map.
FetcherKeys ==
    {"SYSTEM_OVERVIEW", "STORAGE_STATUS", "NETWORK_STATS", "SERVICES_STATUS",
     "SECURITY_STATUS", "DOCKER_STATUS", "SURVEILLANCE_STATUS", "THERMAL_STATUS",
     "CACHE_STATUS", "RAID_STATUS", "VOLUME_STATUS", "UPS_STATUS",
     "HARDWARE_MONITOR", "DRIVE_HEALTH", "POWER_MANAGEMENT", "CACHE_PERFORMANCE",
     "PACKAGE_MANAGER", "USER_SESSIONS"}

\* media_player.py _get_source_image: the icon file shown for a source name.
SourceImage(name) ==
    CASE name = "System Overview" -> "system_overview.png"
      [] name = "Storage Status" -> "storage_status.png"
      [] name = "Network Statistics" -> "network_stats.png"
      [] name = "Services Status" -> "services_status.png"
      [] name = "Security Status" -> "security_status.png"
      [] name = "Docker Containers" -> "docker_status.png"
      [] name = "Surveillance Station" -> "surveillance_status.png"
      [] name = "Temperature Monitor" -> "thermal_status.png"
      [] name = "SSD Cache" -> "cache_status.png"
      [] name = "RAID Health" -> "raid_status.png"
      [] name = "Volume Usage" -> "volume_status.png"
      [] name = "UPS Monitor" -> "ups_status.png"
      [] name = "Hardware Monitor" -> "hardware_monitor.png"
      [] name = "Drive Health" -> "drive_health.png"
      [] name = "Power Management" -> "power_management.png"
      [] name = "Cache Performance" -> "cache_performance.png"
      [] name = "Package Manager" -> "package_manager.png"
      [] name = "User Sessions" -> "user_sessions.png"
      [] OTHER -> "synology_logo.png"


\* str.lower() of a source name.
lower(name) ==
    CASE name = "System Overview" -> "system overview"
      [] name = "Storage Status" -> "storage status"
      [] name = "Network Statistics" -> "network statistics"
      [] name = "Services Status" -> "services status"
      [] name = "Security Status" -> "security status"
      [] name = "Docker Containers" -> "docker containers"
      [] name = "Surveillance Station" -> "surveillance station"
      [] name = "SECURITY_STATUS" -> "security_status"
      [] name = "SYSTEM_OVERVIEW" -> "system_overview"
      [] name = "Bogus" -> "bogus"
      [] name = "Temperature Monitor" -> "temperature monitor"
      [] name = "SSD Cache" -> "ssd cache"
      [] name = "RAID Health" -> "raid health"
      [] name = "Volume Usage" -> "volume usage"
      [] name = "UPS Monitor" -> "ups monitor"
      [] name = "Hardware Monitor" -> "hardware monitor"
      [] name = "Drive Health" -> "drive health"
      [] name = "Power Management" -> "power management"
      [] name = "Cache Performance" -> "cache performance"
      [] name = "Package Manager" -> "package manager"
      [] name = "User Sessions" -> "user sessions"
      [] name = "STORAGE_STATUS" -> "storage_status"
      [] name = "NETWORK_STATS" -> "network_stats"
      [] name = "SERVICES_STATUS" -> "services_status"
      [] name = "THERMAL_STATUS" -> "thermal_status"
      [] name = "CACHE_STATUS" -> "cache_status"
      [] name = "RAID_STATUS" -> "raid_status"
      [] name = "VOLUME_STATUS" -> "volume_status"
      [] name = "UPS_STATUS" -> "ups_status"
      [] name = "HARDWARE_MONITOR" -> "hardware_monitor"
      [] name = "DRIVE_HEALTH" -> "drive_health"
      [] name = "POWER_MANAGEMENT" -> "power_management"
      [] name = "CACHE_PERFORMANCE" -> "cache_performance"
      [] name = "PACKAGE_MANAGER" -> "package_manager"
      [] name = "USER_SESSIONS" -> "user_sessions"
      [] name = "DOCKER_STATUS" -> "docker_status"
      [] name = "SURVEILLANCE_STATUS" -> "surveillance_status"
      [] OTHER -> name

\* "polling_intervals.get(key, 15)": the fallback of _polling_loop.
DefaultInterval == 15

\* helpers.py SynologyConstants.DEFAULT_POLLING, read with the loop's fallback.
polling_intervals(key) ==
    CASE key = "system_status" -> 10
      [] key = "storage_info" -> 30
      [] key = "service_status" -> 15
      [] key = "network_stats" -> 20
      [] key = "security_status" -> 60
      [] key = "hardware_monitor" -> 15
      [] key = "drive_health" -> 45
      [] key = "power_management" -> 30
      [] key = "cache_performance" -> 20
      [] key = "package_manager" -> 60
      [] key = "user_sessions" -> 30
      [] OTHER -> DefaultInterval

\* "await asyncio.sleep(30)" of both loops' "except Exception".
BackOff == 30

\* "await asyncio.sleep(20)" of _camera_polling_loop.
CameraInterval == 20

\* The sleep a pass of the loop of entity e ends with.
tick_interval(e, name, raised) ==
    IF raised THEN BackOff
    ELSE IF e = "dashboard" THEN polling_intervals(lower(name))
    ELSE CameraInterval


\* ------------------------------------------------------------- state
TaskIds == 1..MaxTasks
HandlerIds == 1..MaxHandlers

\* The one camera the Surveillance Station reports.
CamName == "Front Door"
AllCameras == "All Cameras"

VARIABLES
    focus,           \* the entity this run of the hub addresses
    remote_state,    \* the remote entity's attributes[STATE]
    connected,       \* SynologySystemClient._connected
    surveillance,    \* SynologySystemClient._surveillance is set
    cameras,         \* SynologyCameraMonitor._cameras
    snapshot_cache,  \* SynologyCameraMonitor._snapshot_cache entry of the camera
    current,         \* _current_source / _current_camera, per entity
    attr_source,     \* entity.attributes[SOURCE]
    state,           \* entity.attributes[STATE]
    text,            \* entity.attributes[MEDIA_TITLE], [MEDIA_ARTIST]
    image,           \* entity.attributes[MEDIA_IMAGE_URL]
    polling_task,    \* _polling_task, per entity: a task id, 0 for None
    task,            \* the asyncio Task objects of the polling loops
    handler,         \* handler coroutines suspended at an await
    last,            \* what the handler that returned in the step just taken did
    startObs,        \* what start() saw and did if the step just taken called it
    remote_client,   \* SynologySystemRemote._client: which client it holds
    client,          \* driver._client is not None
    configured,      \* SynologyConfig.is_configured() of the file on disk
    entities,        \* the entity objects the driver has created
    device_state,    \* the state last passed to api.set_device_state
    monitoring_task, \* driver._monitoring_task: a task id, 0 for None
    mtask,           \* the asyncio Task objects of _background_monitoring_loop
    features,        \* SynologyConfig.enabled_features
    packages,        \* the keys of SynologyConfig.available_packages
    enabled,         \* what get_enabled_sources returned for them, <<>> before
    shown,           \* the title and subtitle a formatter left, as line lengths
    snap,            \* time.time() and the _snapshot_cache entry with its timestamp
    otp              \* the OTP code: in the stored configuration, in driver._client

\* The driver's globals and the remote's client reference.
drv ==
    <<remote_client, client, configured, entities, device_state, monitoring_task,
      mtask>>

\* The configuration the source registry is built from, and the registry.
reg == <<features, packages, enabled>>

vars ==
    <<focus, remote_state, connected, surveillance, cameras, snapshot_cache, current, attr_source,
      state, text, image, polling_task, task, handler, last, startObs, drv, reg,
      shown, snap, otp>>

NoTask == [ent |-> None, pc |-> "none", cancel |-> FALSE]

\* ucapi.DeviceStates
DISCONNECTED == "DISCONNECTED"
CONNECTING == "CONNECTING"
CONNECTED == "CONNECTED"
ERROR == "ERROR"

MonitorIds == 1..MaxMonitors

\* A monitoring task: where it is parked, whether cancel() was called on it,
\* and the loop's local consecutive_failures.
NoMonitor == [pc |-> "none", cancel |-> FALSE, failures |-> 0]

IdleHandler ==
    [kind |-> "idle", ent |-> None, route |-> None, src |-> None, pc |-> "idle",
     wait |-> 0, fetches |-> 0, formats |-> 0, pushes |-> 0, payload |-> None,
     cam |-> None, was |-> None, changed |-> FALSE, mon |-> 0]

NoCameras == [known |-> FALSE, status |-> 0, recording |-> FALSE]

Txt(kind, src, info) == [kind |-> kind, src |-> src, info |-> info]

NoStart ==
    [called |-> FALSE, ent |-> None, busy |-> FALSE, loops |-> 0,
     conn |-> FALSE, cams |-> FALSE, created |-> FALSE, before |-> None,
     after |-> None]

NoLast ==
    [kind |-> None, ent |-> None, route |-> None, src |-> None, result |-> None,
     fetches |-> 0, formats |-> 0, pushes |-> 0, payload |-> None,
     raised |-> "none", changed |-> FALSE, awaited |-> "none", was |-> None,
     calls |-> 0, interval |-> 0, reports |-> <<>>, failures |-> 0,
     running |-> 0, fetched |-> None, attempts |-> <<>>]

\* Task.done()
Done(t) == task[t].pc = "done"

\* "self._polling_task and not self._polling_task.done()"
Running(pt) == pt # 0 /\ ~Done(pt)

Unfinished(e) == {t \in TaskIds : task[t].ent = e /\ task[t].pc \notin {"none", "done"}}

FreeTasks == {t \in TaskIds : task[t].pc = "none"}
FreeHandlers == {i \in HandlerIds : handler[i].kind = "idle"}
NewTask == CHOOSE t \in FreeTasks : \A u \in FreeTasks : t <= u
NewHandler == CHOOSE i \in FreeHandlers : \A j \in FreeHandlers : i <= j

\* A finished Task that neither an entity nor an awaiting coroutine references
\* is garbage.
Collect(tk, pt, hd) ==
    [t \in TaskIds |->
        IF /\ tk[t].pc = "done"
           /\ \A e \in Entities : pt[e] # t
           /\ \A i \in HandlerIds : hd[i].wait # t
        THEN NoTask ELSE tk[t]]

\* The entity's state as one coroutine sees and changes it between two awaits.
W(e) ==
    [current |-> current[e], source |-> attr_source[e], state |-> state[e],
     text |-> text[e], image |-> image[e], ptask |-> polling_task[e],
     cams |-> cameras, surv |-> surveillance, cache |-> snapshot_cache,
     conn |-> connected, created |-> FALSE, fetches |-> 0, formats |-> 0, pushes |-> 0,
     payload |-> None, raised |-> FALSE, caught |-> FALSE, susp |-> FALSE,
     fetched |-> None, obs |-> NoStart]

\* The same, for a coroutine resumed with the counts it had when it suspended.
WResumed(i) ==
    [W(handler[i].ent) EXCEPT !.fetches = handler[i].fetches,
                              !.formats = handler[i].formats,
                              !.pushes = handler[i].pushes,
                              !.payload = handler[i].payload]

Frame(w) == <<w.current, w.source, w.state, w.text, w.image, w.ptask>>

\* A line of the display: its length and whether it ends in the "..." marker.
Line(n) == [len |-> n, ellipsis |-> FALSE]

\* "Synology System Monitor" / "Initializing...", the attributes of
\* _create_media_player_entity.
InitialLines ==
    [key |-> None, title |-> Line(23), subtitle |-> Line(15), note |-> None,
     cache_enabled |-> None, cache_size |-> 0, divisors |-> {}]

\* The clock at 0, "_snapshot_cache = {}", no snapshot request in flight: the
\* timestamps of the cache entry and of the requests parked in get_camera_image
\* are kept as sets.
NoSnapshot == [now |-> 0, cached |-> {}, pending |-> {}]

\* The entity objects as their constructors leave them.
\* No OTP code anywhere: the configuration as _create_default_config writes it
\* ("otp_enabled": False), no client that holds a code, no login made with one.
NoOtp ==
    [stored |-> [otp_enabled |-> FALSE], held |-> None, sent |-> None,
     used |-> FALSE, reused |-> FALSE]

\* The OTP field of the setup form: left empty, or a code.
OtpCodes == {"", "123456"}

\* An update that would write the form's code into the file as well.
update_storing_code(stored, setup_data) ==
    [k \in DOMAIN stored \cup {"otp_enabled", "otp_code"} |->
        IF k = "otp_enabled" THEN setup_data.otp_code # ""
        ELSE IF k = "otp_code" THEN setup_data.otp_code
        ELSE stored[k]]

\* SynologyConfig.update_from_setup_data, the keys about the OTP code: the
\* stored synology_config keeps the keys it has and gets "otp_enabled":
\* bool(setup_data.get("otp_code", "").strip()).
update_from_setup_data(stored, setup_data) ==
    [k \in DOMAIN stored \cup {"otp_enabled"} |->
        IF k = "otp_enabled" THEN setup_data.otp_code # "" ELSE stored[k]]

\* SynologyConfig.get_connection_params: '"otp_code": None'.
get_connection_params(stored) == [otp_code |-> None]

\* SynologySystemClient.connect of a client that holds the code held passes
\* "otp_code=self._otp_code if self._otp_code else None" to the device: the
\* code sent, and whether a code was sent that had been sent before.
login(o) ==
    [o EXCEPT !.sent = o.held,
              !.used = o.used \/ o.held # None,
              !.reused = o.reused \/ (o.held # None /\ o.used)]

Constructed ==
    /\ remote_state = "OFF"
    /\ surveillance = FALSE
    /\ cameras = NoCameras
    /\ snapshot_cache = "none"
    /\ current = [e \in Entities |->
                    IF e = "dashboard" THEN "System Overview" ELSE AllCameras]
    /\ attr_source = current
    /\ state = [e \in Entities |-> PAUSED]
    /\ text = [e \in Entities |-> Txt("init", None, 0)]
    /\ image = [e \in Entities |->
                    IF e = "dashboard" THEN SourceImage("System Overview")
                    ELSE "surveillance_status.png"]
    /\ polling_task = [e \in Entities |-> 0]
    /\ task = [t \in TaskIds |-> NoTask]
    /\ handler = [i \in HandlerIds |-> IdleHandler]
    /\ last = NoLast
    /\ startObs = NoStart
    /\ device_state = DISCONNECTED
    /\ monitoring_task = 0
    /\ mtask = [m \in MonitorIds |-> NoMonitor]
    /\ shown = InitialLines
    /\ snap = NoSnapshot
    /\ otp = NoOtp

\* The configuration the entities were built from.
EngineConfig ==
    /\ features = EngineFeatures
    /\ packages = EnginePackages
    /\ enabled = <<>>

\* The integration after setup_handler_wrapper completed the setup: the entities
\* exist and hold the connected client of the setup; a remote can also have been
\* constructed as a placeholder, without a client.
Init ==
    /\ focus \in Units
    /\ connected = TRUE
    /\ Constructed
    /\ remote_client \in (IF focus = "remote" THEN {None, "setup"} ELSE {"setup"})
    /\ client = TRUE
    /\ configured = TRUE
    /\ entities = Units
    /\ EngineConfig

\* ------------------------------------------------------------- polling engine
\* What a call of start() found and did.
StartObserved(e, w, w1) ==
    [called |-> TRUE, ent |-> e, busy |-> Running(w.ptask),
     loops |-> Cardinality(Unfinished(e)), conn |-> w.conn,
     cams |-> w.cams.known, created |-> w1.created, before |-> w.state,
     after |-> w1.state]

\* A start() that would not look at the task it holds.
start_unguarded(e, w, tid) ==
    LET go == w.conn /\ (e = "camera" => w.cams.known)
        w1 == IF go
              THEN [w EXCEPT !.state = PLAYING, !.ptask = tid, !.created = TRUE]
              ELSE w
    IN [w1 EXCEPT !.obs = StartObserved(e, w, w1)]

\* start() of either entity; tid is the Task that create_task would return.
start(e, w, tid) ==
    LET busy == Running(w.ptask)
        ready == w.conn /\ (e = "camera" => w.cams.known)
        go == ~busy /\ ready
        w1 == IF go
              THEN [w EXCEPT !.state = PLAYING, !.ptask = tid, !.created = TRUE]
              ELSE w
    IN [w1 EXCEPT !.obs = StartObserved(e, w, w1)]

\* update_attributes(entity_id, payload)
push(w, payload) == [w EXCEPT !.pushes = @ + 1, !.payload = payload]

\* What a fetch + format can come to: a record the formatter shows ("data"), a
\* record it does not accept or a failure-shaped one ("empty"), an
\* AttributeError, any other exception.
FetchOutcomes == {"data", "empty", "attr_error", "error"}

\* Formatters that leave the text alone on a record they do not accept.
GuardedUpdaters ==
    {"SYSTEM_OVERVIEW", "STORAGE_STATUS", "SECURITY_STATUS", "DOCKER_STATUS"}

\* The _update_*_display formatter bound to a key, applied to the record. The
\* overview formatter sets STATE to PLAYING for a record whose status is
\* "healthy", which is the status of every record get_system_overview builds.
Updater(key, out, w) ==
    CASE out = "data" /\ key = "SYSTEM_OVERVIEW" ->
            [w EXCEPT !.state = PLAYING, !.text = Txt("data", key, 0)]
      [] out = "data" /\ key # "SYSTEM_OVERVIEW" ->
            [w EXCEPT !.text = Txt("data", key, 0)]
      [] out = "empty" /\ key \in GuardedUpdaters -> w
      [] OTHER -> [w EXCEPT !.text = Txt("fail", key, 0)]

\* An update that would keep the source key it resolved when the loop began
\* with the initial source.
update_first_source(w, out) ==
    IF ~w.conn THEN w
    ELSE LET key == "SYSTEM_OVERVIEW"
         IN LET w1 == [w EXCEPT !.fetches = @ + 1, !.fetched = key]
            IN CASE out = "error" -> [w1 EXCEPT !.raised = TRUE]
                 [] out = "attr_error" ->
                       [w1 EXCEPT !.caught = TRUE,
                                  !.text = Txt("not_available", w.current, 0)]
                 [] OTHER -> Updater(key, out, [w1 EXCEPT !.formats = @ + 1])

\* SynologySystemDashboard._update_current_data
update_current_data(w, out) ==
    IF ~w.conn THEN w
    ELSE LET key == SourceKey(w.current)
         IN IF key \in FetcherKeys
            THEN LET w1 == [w EXCEPT
                              !.fetches = @ + 1,
                              !.fetched = key,
                              !.surv = @ \/ (key = "SURVEILLANCE_STATUS"
                                               /\ out = "data")]
                 IN CASE out = "error" -> [w1 EXCEPT !.raised = TRUE]
                      [] out = "attr_error" ->
                            [w1 EXCEPT !.caught = TRUE,
                                       !.text = Txt("not_available", w.current, 0)]
                      [] OTHER -> Updater(key, out, [w1 EXCEPT !.formats = @ + 1])
            ELSE [w EXCEPT !.text = Txt("coming_soon", w.current, 0)]

\* A push that would be made whether or not the call before it raised.
push_always(w) == push(w, "attributes")

\* A loop body that would go to its sleep without the push.
without_push(w) == w

\* "update_attributes(entity_id, attributes)" after a call: not executed when
\* the call raised.
then_push(w) == IF w.raised THEN w ELSE push(w, "attributes")

\* A selection that would not compare the name with the current source.
select_always(w, name, out) ==
    LET w1 == [w EXCEPT !.current = name, !.source = name,
                        !.image = SourceImage(name)]
    IN then_push(update_current_data(w1, out))

\* A selection that would leave the fetch to the loop's next pass.
select_deferred(w, name, out) ==
    IF name # w.current
    THEN [w EXCEPT !.current = name, !.source = name, !.image = SourceImage(name)]
    ELSE w

\* SynologySystemDashboard._handle_source_selection
handle_source_selection(w, name, out) ==
    IF name # w.current
    THEN LET w1 == [w EXCEPT !.current = name, !.source = name,
                             !.image = SourceImage(name)]
         IN then_push(update_current_data(w1, out))
    ELSE w

\* SynologySystemDashboard._refresh_display
refresh_display(w, out) ==
    then_push(update_current_data(w, out))

\* SynologySystemDashboard._handle_power_on
handle_power_on(w, out, tid) ==
    then_push(update_current_data(start("dashboard", w, tid), out))

\* A power-off that would push the whole attribute record.
power_off_full(w) == push([w EXCEPT !.state = PAUSED], "attributes")

\* The tail of _handle_power_off / _handle_camera_off, after stop() returned.
power_off_tail(w) == push([w EXCEPT !.state = PAUSED], "state")


\* ------------------------------------------------------------- camera monitor
\* What camera_list() can answer: an error, no camera, or the camera with its
\* status and recording schedule.
CamReports == {"fail", "none", "offline", "online", "recording"}

ReportedCamera(cl) ==
    [known |-> TRUE, status |-> IF cl = "offline" THEN 0 ELSE 1,
     recording |-> cl = "recording"]

\* SynologyCameraMonitor._discover_cameras
discover_cameras(w, cl) ==
    IF ~w.surv THEN [w EXCEPT !.cams = NoCameras]
    ELSE [w EXCEPT !.fetches = @ + 1,
                   !.cams = IF cl \in {"fail", "none"} THEN NoCameras
                            ELSE ReportedCamera(cl)]

\* SynologyCameraMonitor._update_camera_status
update_camera_status(w, cl) ==
    IF ~w.surv THEN w
    ELSE [w EXCEPT !.fetches = @ + 1,
                   !.cams = IF cl \in {"fail", "none"} \/ ~w.cams.known THEN @
                            ELSE ReportedCamera(cl)]

\* SynologyCameraMonitor._get_status_icon
get_status_icon(name, cams) ==
    IF name = AllCameras THEN "surveillance_status.png"
    ELSE LET known == name = CamName /\ cams.known
             status == IF known THEN cams.status ELSE 0
             recording == IF known THEN cams.recording ELSE FALSE
         IN IF status = 1 /\ recording THEN "camera_recording.png"
            ELSE IF status = 1 THEN "camera_online.png"
            ELSE "camera_offline.png"

\* SynologyCameraMonitor._update_all_cameras_display
update_all_cameras_display(w) ==
    LET total == IF w.cams.known THEN 1 ELSE 0
        online == IF w.cams.known /\ w.cams.status = 1 THEN 1 ELSE 0
        recording == IF w.cams.known /\ w.cams.recording THEN 1 ELSE 0
    IN [w EXCEPT !.text = Txt("all", AllCameras, <<total, online, recording>>),
                 !.image = get_status_icon(AllCameras, w.cams)]

\* How a snapshot retrieval that misses the cache can go: get_camera_image is
\* awaited ("await"), or only the synchronous get_snapshot is there and gives
\* an image ("sync_ok") or none ("sync_fail").
SnapshotOutcomes == {"await", "sync_ok", "sync_fail"}

\* SynologyCameraMonitor._update_single_camera_display, up to the await inside
\* _get_camera_snapshot_home_assistant_method.
update_single_camera_display(w, name, so) ==
    IF ~(name = CamName /\ w.cams.known) THEN w
    ELSE LET w1 == [w EXCEPT !.text = Txt("single", name,
                                          <<w.cams.status, w.cams.recording>>)]
         IN IF w.cams.status # 1
            THEN [w1 EXCEPT !.image = get_status_icon(name, w.cams)]
            ELSE IF w.cache = "fresh" THEN [w1 EXCEPT !.image = "snapshot"]
            ELSE IF so = "await" THEN [w1 EXCEPT !.susp = TRUE]
            ELSE IF so = "sync_ok"
            THEN [w1 EXCEPT !.fetches = @ + 1, !.cache = "fresh",
                            !.image = "snapshot"]
            ELSE [w1 EXCEPT !.fetches = @ + 1,
                            !.image = get_status_icon(name, w.cams)]

\* The rest of _update_single_camera_display once the awaited get_camera_image
\* has answered: ok is whether it, or the get_snapshot fallback, gave an image.
snapshot_resumed(w, name, ok) ==
    IF ok THEN [w EXCEPT !.fetches = @ + 1, !.cache = "fresh", !.image = "snapshot"]
    ELSE [w EXCEPT !.fetches = @ + 1, !.image = get_status_icon(name, w.cams)]

\* SynologyCameraMonitor._update_camera_display
update_camera_display(w, so) ==
    IF w.current = AllCameras THEN update_all_cameras_display(w)
    ELSE update_single_camera_display(w, w.current, so)

\* "update_attributes(entity_id, attributes)" after the display update: when
\* that parked at its await, it runs once the coroutine is resumed.
push_unless_parked(w) ==
    IF w.susp \/ w.raised THEN w ELSE push(w, "attributes")

\* SynologyCameraMonitor._handle_camera_selection
handle_camera_selection(w, name, so) ==
    IF name # w.current
    THEN push_unless_parked(update_camera_display(
             [w EXCEPT !.current = name, !.source = name], so))
    ELSE w

\* SynologyCameraMonitor._handle_camera_on
handle_camera_on(w, tid) ==
    push(start("camera", [w EXCEPT !.state = PLAYING], tid), "attributes")

\* SynologyCameraMonitor._refresh_camera_display
refresh_camera_display(w, cl, so) ==
    push_unless_parked(update_camera_display(update_camera_status(w, cl), so))

\* ------------------------------------------------------------- command router
\* The parameter record of a command: no params, an empty dict, a dict without
\* the key, something that is no dict, or a dict with a source value.
Malformed == "<malformed>"
ParamShapes == {"<noparams>", "<empty>", "<nokey>", Malformed}

\* params.get("source") if params else None
ParamSource(p) == IF p \in ParamShapes THEN None ELSE p

\* A test that would let every value through.
any_value(v) == TRUE

\* "if source:"
Truthy(v) == v # None /\ v # ""

\* The if/elif chain of SynologySystemDashboard.handle_command.
dashboard_route(cmd) ==
    IF cmd = SELECT_SOURCE THEN "select"
    ELSE IF cmd = ON THEN "on"
    ELSE IF cmd = OFF THEN "off"
    ELSE IF cmd = VOLUME_UP THEN "refresh"
    ELSE IF cmd = VOLUME_DOWN THEN "refresh"
    ELSE IF cmd \in SUPPRESSED_COMMANDS THEN "suppressed"
    ELSE IF cmd \in CUSTOM_COMMANDS THEN "refresh"
    ELSE "not_implemented"

\* A camera handler that would know the dashboard's custom identifiers.
route_with_custom(cmd) == dashboard_route(cmd)

\* The if/elif chain of SynologyCameraMonitor.handle_command.
camera_route(cmd) ==
    IF cmd = SELECT_SOURCE THEN "select"
    ELSE IF cmd = ON THEN "on"
    ELSE IF cmd = OFF THEN "off"
    ELSE IF cmd = VOLUME_UP THEN "refresh"
    ELSE IF cmd = VOLUME_DOWN THEN "refresh"
    ELSE IF cmd \in CAMERA_SUPPRESSED_COMMANDS THEN "suppressed"
    ELSE "not_implemented"

\* A router without the denylist branch.
route_without_denylist(e, cmd) ==
    IF cmd \in SUPPRESSED_COMMANDS THEN "not_implemented"
    ELSE IF e = "dashboard" THEN dashboard_route(cmd) ELSE camera_route(cmd)

route(e, cmd) == IF e = "dashboard" THEN dashboard_route(cmd) ELSE camera_route(cmd)

\* A handler without the try around its body.
propagate(raised, result) == IF raised THEN RAISED ELSE result

\* "except Exception: return StatusCodes.SERVER_ERROR" around a handler's body.
HandlerBoundary(raised, result) == IF raised THEN SERVER_ERROR ELSE result

\* The branch r of handle_command, run up to its return or its first await that
\* suspends; the power-off branch is PowerOff below.
Body(e, r, p, w, out, cl, so, tid) ==
    IF r = "select"
    THEN IF p = Malformed THEN [w |-> [w EXCEPT !.raised = TRUE], result |-> None]
         ELSE IF Truthy(ParamSource(p))
         THEN [w |-> IF e = "dashboard" THEN handle_source_selection(w, p, out)
                     ELSE handle_camera_selection(w, p, so),
               result |-> OK]
         ELSE [w |-> w, result |-> BAD_REQUEST]
    ELSE IF r = "on"
    THEN [w |-> IF e = "dashboard" THEN handle_power_on(w, out, tid)
                ELSE handle_camera_on(w, tid),
          result |-> OK]
    ELSE IF r = "refresh"
    THEN [w |-> IF e = "dashboard" THEN refresh_display(w, out)
                ELSE refresh_camera_display(w, cl, so),
          result |-> OK]
    ELSE IF r = "suppressed" THEN [w |-> w, result |-> OK]
    ELSE [w |-> w, result |-> NOT_IMPLEMENTED]


\* ------------------------------------------------------------- remote
SEND_CMD == "send_cmd"
RemoteCommandIds == {ON, OFF, SEND_CMD, "toggle", "send_cmd_sequence"}
SYSTEM_COMMANDS == {"BEEP_ON", "BEEP_OFF", "SYSTEM_RESTART", "SYSTEM_SHUTDOWN"}

\* How the device answers a system call of the remote.
DeviceAnswers == {"ok", "raise"}

\* A remote that would pass every command name on to the device.
system_command_unlisted(command, conn, dev) ==
    IF ~conn THEN [ok |-> FALSE, calls |-> 0]
    ELSE [ok |-> dev = "ok", calls |-> 1]

\* A remote that would not look at its client before the call.
system_command_unchecked(command, conn, dev) ==
    IF command \in SYSTEM_COMMANDS THEN [ok |-> dev = "ok", calls |-> 1]
    ELSE [ok |-> FALSE, calls |-> 0]

\* SynologySystemRemote._handle_system_command; conn is "self._client and
\* self._client.connected". An exception of the device call is caught: one call
\* was made and the answer is False.
handle_system_command(command, conn, dev) ==
    IF ~conn THEN [ok |-> FALSE, calls |-> 0]
    ELSE IF command \in SYSTEM_COMMANDS THEN [ok |-> dev = "ok", calls |-> 1]
    ELSE [ok |-> FALSE, calls |-> 0]

\* The if/elif chain of SynologySystemRemote.handle_command: what the
\* invocation does and returns.
remote_body(cmd, p, conn, dev) ==
    LET quiet == [state |-> None, pushes |-> 0, calls |-> 0, raised |-> FALSE]
    IN IF cmd = ON
       THEN [quiet EXCEPT !.state = "ON", !.pushes = 1] @@ [result |-> OK]
       ELSE IF cmd = OFF
       THEN [quiet EXCEPT !.state = "OFF", !.pushes = 1] @@ [result |-> OK]
       ELSE IF cmd = SEND_CMD
       THEN IF p = Malformed THEN [quiet EXCEPT !.raised = TRUE] @@ [result |-> None]
            ELSE IF Truthy(ParamSource(p))
            THEN LET c == handle_system_command(p, conn, dev)
                 IN [quiet EXCEPT !.calls = c.calls]
                    @@ [result |-> IF c.ok THEN OK ELSE SERVER_ERROR]
            ELSE quiet @@ [result |-> BAD_REQUEST]
       ELSE quiet @@ [result |-> NOT_IMPLEMENTED]

\* ------------------------------------------------------------- lifecycle
\* SynologySystemDashboard.push_initial_state: an exception is logged, not raised.
dashboard_push_initial_state(w, out, tid) ==
    LET w1 == update_current_data([w EXCEPT !.image = SourceImage(w.current)], out)
    IN IF w1.raised THEN [w1 EXCEPT !.raised = FALSE]
       ELSE start("dashboard", push(w1, "attributes"), tid)

\* SynologyCameraMonitor.push_initial_state, up to a suspending await.
camera_push_initial_state(w, cl, so, tid) ==
    LET w1 == discover_cameras(w, cl)
        w2 == update_camera_display(w1, so)
    IN IF w1.cams.known
       THEN IF w2.susp \/ w2.raised THEN w2
            ELSE start("camera", push(w2, "attributes"), tid)
       ELSE push([w1 EXCEPT !.text = Txt("no_cameras", None, 0),
                            !.state = UNAVAILABLE], "attributes")

\* A stop() that would go on without the loop having ended.
await_nothing(t) == TRUE

\* "await self._polling_task" in stop(): the awaiting coroutine can go on once
\* the task has finished.
await_task(t) == Done(t)

\* "self._polling_task = None", the last statement of stop().
stop_tail(w) == [w EXCEPT !.ptask = 0]

\* ------------------------------------------------------------- lifecycle coordinator
\* How a call of SynologySystemClient.connect can go: the test call succeeds,
\* it answers without success, or something in the body raises.
ConnectAnswers == {"ok", "fail", "raise"}

\* SynologySystemClient.connect: the _connected flag it leaves and what it
\* returns; it never raises.
connect(conn, ans) ==
    CASE ans = "ok" -> [conn |-> TRUE, ret |-> TRUE]
      [] ans = "fail" -> [conn |-> conn, ret |-> FALSE]
      [] OTHER -> [conn |-> FALSE, ret |-> FALSE]

\* hasattr(_client, 'reconnect_after_reboot'): SynologySystemClient defines no
\* method of that name.
has_reconnect_after_reboot == FALSE

\* An on_connect that would report CONNECTED after every connection attempt.
on_connect_optimistic(cl, conn, cfg, ans) ==
    IF cl \/ cfg
    THEN [client |-> TRUE, conn |-> connect(conn, ans).conn,
          reports |-> <<CONNECTING, CONNECTED>>]
    ELSE [client |-> FALSE, conn |-> conn, reports |-> <<CONNECTING, ERROR>>]

\* driver.on_connect: whether _client is set afterwards, the client's flag and
\* the states passed to api.set_device_state, in order.
on_connect(cl, conn, cfg, ans) ==
    IF cl
    THEN IF conn
         THEN [client |-> TRUE, conn |-> conn, reports |-> <<CONNECTING, CONNECTED>>]
         ELSE [client |-> TRUE, conn |-> connect(conn, ans).conn,
               reports |-> <<CONNECTING,
                             IF connect(conn, ans).ret THEN CONNECTED ELSE ERROR>>]
    ELSE IF cfg
    THEN [client |-> TRUE, conn |-> connect(FALSE, ans).conn,
          reports |-> <<CONNECTING,
                        IF connect(FALSE, ans).ret THEN CONNECTED ELSE ERROR>>]
    ELSE [client |-> FALSE, conn |-> conn, reports |-> <<CONNECTING, ERROR>>]

\* driver.on_connect, "if _client: ... else:" for a client that is not
\* connected: the reconnection strategies it calls, in order; the post-reboot
\* one only when the client has the method, the standard one unless that
\* returned true (rb: what it would return).
reconnect_attempts(cl, conn, rb) ==
    IF cl /\ ~conn
    THEN IF has_reconnect_after_reboot
         THEN IF rb THEN <<"reconnect_after_reboot">>
              ELSE <<"reconnect_after_reboot", "connect">>
         ELSE <<"connect">>
    ELSE <<>>

\* "if not _client or not _client.connected: ... elif _client: await
\* _client.connect()" at the head of on_subscribe_entities: the client's flag
\* afterwards.
subscribe_reconnect(cl, conn, ans) ==
    IF cl /\ ~conn THEN connect(conn, ans).conn ELSE conn

\* SynologySystemRemote.push_initial_state: the state attribute it leaves.
remote_push_initial_state(bound, conn) == IF bound /\ conn THEN "ON" ELSE "OFF"

\* "_monitoring_task and not _monitoring_task.done()"
MonitorRunning(h, mt) == h # 0 /\ mt[h].pc # "done"

UnfinishedMonitors == {m \in MonitorIds : mtask[m].pc \notin {"none", "done"}}

FreeMonitors == {m \in MonitorIds : mtask[m].pc = "none"}
NewMonitor == CHOOSE m \in FreeMonitors : \A n \in FreeMonitors : m <= n

\* The tail of on_subscribe_entities: whether it creates a monitoring task.
starts_monitoring(h, mt, cl, conn) == ~MonitorRunning(h, mt) /\ cl /\ conn

\* A finished monitoring Task that neither _monitoring_task nor an awaiting
\* coroutine references is garbage.
CollectMonitors(mt, h, hd) ==
    [m \in MonitorIds |->
        IF mt[m].pc = "done" /\ h # m /\ \A i \in HandlerIds : hd[i].mon # m
        THEN NoMonitor ELSE mt[m]]

\* "max_failures = 3" of _background_monitoring_loop.
max_failures == 3

\* What the health check of a pass can answer: an overview record, or the
\* empty record get_system_overview gives for every failure of its own.
HealthAnswers == {"data", "empty"}

\* One pass of _background_monitoring_loop up to its sleep: the counter it
\* leaves and how often it called the reconnection method; rc is whether a
\* reconnection, if made, succeeds.
monitoring_pass(cl, conn, failures, hc, rc) ==
    IF cl /\ conn
    THEN LET f == IF hc = "data" THEN 0 ELSE failures + 1
         IN IF f >= max_failures /\ has_reconnect_after_reboot
            THEN [failures |-> IF rc THEN 0 ELSE f, reconnects |-> 1]
            ELSE [failures |-> f, reconnects |-> 0]
    ELSE [failures |-> failures + 1,
          reconnects |-> IF cl /\ failures + 1 >= max_failures
                              /\ has_reconnect_after_reboot
                         THEN 1 ELSE 0]

\* "await asyncio.sleep(30)" at the end of a pass of the monitoring loop.
MonitorInterval == 30

\* "await asyncio.sleep(60)" of the loop's "except Exception".
MonitorBackOff == 60

\* The sleep a pass of the monitoring loop ends with: the back-off only when
\* an exception left the pass. The health check's exceptions are caught inside
\* the pass and the counter plays no part.
monitoring_sleep(raised, failures) ==
    IF raised THEN MonitorBackOff ELSE MonitorInterval

\* An on_disconnect coroutine parked at an await: of the monitoring task mon or
\* of the polling task wait inside the stop() of entity e.
ParkedDisconnect(pc, e, wait, mon) ==
    [IdleHandler EXCEPT !.kind = "on_disconnect", !.pc = pc, !.ent = e,
                        !.wait = wait, !.mon = mon]

\* The order in which on_disconnect stops the entities.
StopOrder == <<"dashboard", "camera">>

\* The entities of StopOrder that come after e.
StopAfter(e) == IF e = "dashboard" THEN <<"camera">> ELSE <<>>

\* The entity whose stop() on_disconnect has to wait in next, of those in es:
\* the first that exists and holds an unfinished task.
RECURSIVE NextStop(_, _)
NextStop(es, pt) ==
    IF es = <<>> THEN None
    ELSE IF Head(es) \in entities /\ Running(pt[Head(es)]) THEN Head(es)
    ELSE NextStop(Tail(es), pt)

\* ------------------------------------------------------------- actions
Tid == IF FreeTasks = {} THEN 0 ELSE NewTask

Installed(e, w, tk) ==
    IF w.created
    THEN [tk EXCEPT ![w.ptask] = [ent |-> e, pc |-> "new", cancel |-> FALSE]]
    ELSE tk

\* The coroutine's view w of entity e becomes the state; tk are the tasks as the
\* step left them, hd the suspended handlers, lst what the step returned.
CommitEntity(e, w, tk, hd, lst) ==
    LET pt == [polling_task EXCEPT ![e] = w.ptask]
    IN /\ w.created => FreeTasks # {}
       /\ connected' = w.conn
       /\ surveillance' = w.surv
       /\ cameras' = w.cams
       /\ snapshot_cache' = w.cache
       /\ current' = [current EXCEPT ![e] = w.current]
       /\ attr_source' = [attr_source EXCEPT ![e] = w.source]
       /\ state' = [state EXCEPT ![e] = w.state]
       /\ text' = [text EXCEPT ![e] = w.text]
       /\ image' = [image EXCEPT ![e] = w.image]
       /\ polling_task' = pt
       /\ task' = Collect(Installed(e, w, tk), pt, hd)
       /\ handler' = hd
       /\ startObs' = w.obs
       /\ last' = lst
       /\ UNCHANGED <<reg, shown, snap, otp>>

\* The same for a step that leaves the remote and the driver's globals alone.
Commit(e, w, tk, hd, lst) ==
    /\ CommitEntity(e, w, tk, hd, lst)
    /\ UNCHANGED <<focus, remote_state, drv>>

\* The record of a handler invocation that returns now.
Returned(kind, e, r, p, pre, w, result) ==
    [kind |-> kind, ent |-> e, route |-> r, src |-> p, result |-> result,
     fetches |-> w.fetches, formats |-> w.formats, pushes |-> w.pushes,
     payload |-> w.payload,
     raised |-> IF w.raised THEN "exception"
                ELSE IF w.caught THEN "attribute_error" ELSE "none",
     changed |-> Frame(pre) # Frame(w),
     awaited |-> "none", was |-> pre.current, calls |-> 0, interval |-> 0,
     reports |-> <<>>, failures |-> 0, running |-> 0, fetched |-> w.fetched,
     attempts |-> <<>>]

\* The same for a coroutine that was parked: what it saw and changed before it
\* was parked counts.
ReturnedLater(i, pre, w, result) ==
    [Returned(handler[i].kind, handler[i].ent, handler[i].route, handler[i].src,
              pre, w, result)
     EXCEPT !.was = handler[i].was, !.changed = @ \/ handler[i].changed]

\* The record of a pass of a polling loop that reached its sleep: what it did
\* and how long the sleep is.
Ticked(e, pre, w) ==
    [Returned("tick", e, None, None, pre, w, None)
     EXCEPT !.interval = tick_interval(e, w.current, w.raised)]

\* A handler coroutine parked at an await.
Suspended(kind, e, r, p, pc, wait, pre, w) ==
    [kind |-> kind, ent |-> e, route |-> r, src |-> p, pc |-> pc, wait |-> wait,
     fetches |-> w.fetches, formats |-> w.formats, pushes |-> w.pushes,
     payload |-> w.payload, cam |-> IF pc = "await_snap" THEN w.current ELSE None,
     was |-> pre.current, changed |-> Frame(pre) # Frame(w), mon |-> 0]

\* handle_command of entity e for the command id cmd, every branch but
\* power-off; a are the device's answers.
Command(e, cmd, p, a) ==
    /\ focus = e
    /\ route(e, cmd) # "off"
    /\ LET r == route(e, cmd)
           pre == W(e)
           b == Body(e, r, p, pre, a[1], a[2], a[3], Tid)
       IN IF b.w.susp
          THEN /\ FreeHandlers # {}
               /\ Commit(e, b.w, task,
                         [handler EXCEPT ![NewHandler] =
                             Suspended("command", e, r, p, "await_snap", 0, pre, b.w)],
                         NoLast)
          ELSE Commit(e, b.w, task, handler,
                      Returned("command", e, r, p, pre, b.w,
                               HandlerBoundary(b.w.raised, b.result)))

\* handle_command of entity e for power-off: _handle_power_off /
\* _handle_camera_off, whose stop() cancels the loop and awaits it.
PowerOff(e) ==
    /\ focus = e
    /\ route(e, OFF) = "off"
    /\ LET pre == W(e)
       IN IF Running(pre.ptask)
          THEN /\ FreeHandlers # {}
               /\ Commit(e, pre, [task EXCEPT ![pre.ptask].cancel = TRUE],
                         [handler EXCEPT ![NewHandler] =
                             Suspended("command", e, "off", "<noparams>",
                                       "await_stop", pre.ptask, pre, pre)],
                         NoLast)
          ELSE LET w == power_off_tail(pre)
               IN Commit(e, w, task, handler,
                         Returned("command", e, "off", "<noparams>", pre, w,
                                  HandlerBoundary(w.raised, OK)))

\* on_subscribe_entities([e]): a reconnection attempt when the client is not
\* connected (rc: it succeeds), then push_initial_state of the entity.
Subscribe(e, rc, a) ==
    /\ focus = e
    /\ rc => ~connected
    /\ LET pre == [W(e) EXCEPT !.conn = @ \/ rc]
           w == IF e = "dashboard"
                THEN dashboard_push_initial_state(pre, a[1], Tid)
                ELSE camera_push_initial_state(pre, a[2], a[3], Tid)
       IN IF w.susp
          THEN /\ FreeHandlers # {}
               /\ Commit(e, w, task,
                         [handler EXCEPT ![NewHandler] =
                             Suspended("subscribe", e, None, None, "await_snap", 0,
                                       pre, w)],
                         NoLast)
          ELSE Commit(e, w, task, handler,
                      Returned("subscribe", e, None, None, pre, w, None))

\* A coroutine parked in get_camera_image is resumed with the answer.
ResumeSnapshot(i, ok) ==
    /\ handler[i].pc = "await_snap"
    /\ LET e == handler[i].ent
           pre == WResumed(i)
           w1 == push(snapshot_resumed(pre, handler[i].cam, ok), "attributes")
           w == IF handler[i].kind = "subscribe" THEN start(e, w1, Tid) ELSE w1
       IN Commit(e, w, task, [handler EXCEPT ![i] = IdleHandler],
                 ReturnedLater(i, pre, w,
                               IF handler[i].kind = "command"
                               THEN HandlerBoundary(w.raised, OK) ELSE None))

\* on_disconnect: its stop() of the entity, up to the await of the cancelled
\* task.
Disconnect(e) ==
    /\ focus = e
    /\ LET pre == W(e)
       IN IF Running(pre.ptask)
          THEN /\ FreeHandlers # {}
               /\ Commit(e, pre, [task EXCEPT ![pre.ptask].cancel = TRUE],
                         [handler EXCEPT ![NewHandler] =
                             Suspended("disconnect", e, None, None, "await_stop",
                                       pre.ptask, pre, pre)],
                         NoLast)
          ELSE Commit(e, pre, task, handler,
                      Returned("disconnect", e, None, None, pre, pre, None))

\* A coroutine parked in stop() is resumed: the awaited task has finished.
ResumeStop(i) ==
    /\ handler[i].pc = "await_stop"
    /\ await_task(handler[i].wait)
    /\ LET e == handler[i].ent
           pre == WResumed(i)
           w1 == stop_tail(pre)
           w == IF handler[i].kind = "command" THEN power_off_tail(w1) ELSE w1
       IN Commit(e, w, task, [handler EXCEPT ![i] = IdleHandler],
                 [ReturnedLater(i, pre, w,
                                IF handler[i].kind = "command"
                                THEN HandlerBoundary(w.raised, OK) ELSE None)
                  EXCEPT !.awaited = IF Done(handler[i].wait) THEN "done"
                                     ELSE "unfinished"])

\* The loop task gets the CancelledError at the await it is parked at (or before
\* its first step) and ends.
TaskCancelled(t) ==
    /\ task[t].pc \in {"new", "sleep", "backoff", "fetch"}
    /\ task[t].cancel
    /\ Commit(task[t].ent, W(task[t].ent), [task EXCEPT ![t].pc = "done"],
              handler, NoLast)

\* One pass of SynologySystemDashboard._polling_loop, from its start or from a
\* sleep that ended to the next sleep.
DashboardTick(t, out) ==
    /\ task[t].ent = "dashboard"
    /\ task[t].pc \in {"new", "sleep", "backoff"}
    /\ ~task[t].cancel
    /\ LET pre == W("dashboard")
           w == then_push(update_current_data(pre, out))
       IN Commit("dashboard", [w EXCEPT !.raised = FALSE],
                 [task EXCEPT ![t].pc = IF w.raised THEN "backoff" ELSE "sleep"],
                 handler, Ticked("dashboard", pre, w))

\* One pass of SynologyCameraMonitor._camera_polling_loop up to the next sleep
\* or to the await of get_camera_image.
CameraTick(t, cl, so) ==
    /\ task[t].ent = "camera"
    /\ task[t].pc \in {"new", "sleep", "backoff"}
    /\ ~task[t].cancel
    /\ LET pre == W("camera")
           w == push_unless_parked(
                    update_camera_display(update_camera_status(pre, cl), so))
       IN IF w.susp
          THEN Commit("camera", w, [task EXCEPT ![t].pc = "fetch"], handler,
                      NoLast)
          ELSE Commit("camera", w, [task EXCEPT ![t].pc = "sleep"], handler,
                      Ticked("camera", pre, w))

\* The camera loop parked in get_camera_image is resumed with the answer.
CameraTickResume(t, ok) ==
    /\ task[t].pc = "fetch"
    /\ ~task[t].cancel
    /\ LET pre == W("camera")
           w == push(snapshot_resumed(pre, CamName, ok), "attributes")
       IN Commit("camera", w, [task EXCEPT ![t].pc = "sleep"], handler,
                 Ticked("camera", pre, w))

\* SynologySystemRemote.handle_command
RemoteCommand(cmd, p, dev) ==
    /\ focus = "remote"
    /\ LET b == remote_body(cmd, p, remote_client # None /\ connected, dev)
           st == IF b.state = None THEN remote_state ELSE b.state
       IN /\ remote_state' = st
          /\ last' = [NoLast EXCEPT
                        !.kind = "command", !.ent = "remote", !.route = cmd,
                        !.src = p,
                        !.result = HandlerBoundary(b.raised, b.result),
                        !.pushes = b.pushes,
                        !.raised = IF b.raised THEN "exception"
                                   ELSE IF b.calls > 0 /\ dev = "raise"
                                   THEN "device_error" ELSE "none",
                        !.payload = IF b.pushes > 0 THEN "state" ELSE None,
                        !.changed = st # remote_state,
                        !.was = remote_state, !.calls = b.calls]
    /\ startObs' = NoStart
    /\ UNCHANGED <<focus, connected, surveillance, cameras, snapshot_cache,
                   current, attr_source, state, text, image, polling_task, task,
                   handler, client, configured, entities, device_state,
                   monitoring_task, mtask, reg,
                   shown, snap, otp>>
    /\ remote_client' = remote_client

\* SynologySystemRemote.update_client(c): c is a client or None.
UpdateClient(c) ==
    /\ focus = "remote"
    /\ remote_client' = c
    /\ last' = [NoLast EXCEPT !.kind = "update_client", !.ent = "remote"]
    /\ startObs' = NoStart
    /\ UNCHANGED <<focus, remote_state, connected, surveillance, cameras,
                   snapshot_cache, current, attr_source, state, text, image,
                   polling_task, task, handler, client, configured, entities,
                   device_state, monitoring_task, mtask, reg,
                   shown, snap, otp>>

\* What a step of the environment leaves alone.
Untouched ==
    /\ last' = NoLast
    /\ startObs' = NoStart
    /\ UNCHANGED <<focus, remote_state, cameras, current, attr_source, state,
                   text, image, polling_task, task, handler, drv, reg, shown,
                   snap, otp>>

\* The client loses the device: connect() of a reconnection attempt raised, or
\* disconnect() was called.
ClientDisconnect ==
    /\ connected
    /\ connected' = FALSE
    /\ UNCHANGED <<surveillance, snapshot_cache>>
    /\ Untouched

\* SynologySystemClient.connect succeeds for a client that is not connected.
ClientConnect ==
    /\ ~connected
    /\ connected' = TRUE
    /\ UNCHANGED <<surveillance, snapshot_cache>>
    /\ Untouched

\* SynologySystemClient.get_surveillance_status, called for the dashboard or the
\* health check, opens the Surveillance Station handle.
SurveillanceOpened ==
    /\ focus \in {"camera", "driver"}
    /\ connected /\ ~surveillance
    /\ surveillance' = TRUE
    /\ UNCHANGED <<connected, snapshot_cache>>
    /\ Untouched

\* The 30 s of a cached snapshot pass: the entry counts as none.
CacheExpires ==
    /\ snapshot_cache = "fresh"
    /\ snapshot_cache' = "none"
    /\ UNCHANGED <<connected, surveillance>>
    /\ Untouched

\* ------------------------------------------------------------- driver actions
\* What a step of the driver that touches no entity object leaves alone.
EntitiesUntouched ==
    UNCHANGED <<surveillance, cameras, snapshot_cache, current, attr_source,
                state, text, image, polling_task, task, handler, reg, shown,
                snap>>

\* setup_handler_wrapper on SetupComplete, at the first setup and at every
\* later one: the driver takes the connected client of the setup and creates
\* new entity objects, the camera monitor only when Surveillance Station was
\* detected (sv); code is the OTP field of the form, with which setup_handler
\* builds and connects that client. The objects it held before are dropped as they are: nothing
\* stops their polling loops, and a loop task that has not finished stays.
SetupComplete(sv, code) ==
    /\ focus = "driver"
    /\ otp' = login([stored |-> update_from_setup_data(otp.stored,
                                                       [otp_code |-> code]),
                     held |-> IF code # "" THEN code ELSE None,
                     sent |-> None, used |-> FALSE, reused |-> FALSE])
    /\ client' = TRUE
    /\ connected' = TRUE
    /\ configured' = TRUE
    /\ remote_client' = "setup"
    /\ remote_state' = "OFF"
    /\ entities' = IF sv THEN Units ELSE Units \ {"camera"}
    /\ cameras' = NoCameras
    /\ snapshot_cache' = "none"
    /\ current' = [e \in Entities |->
                     IF e = "dashboard" THEN "System Overview" ELSE AllCameras]
    /\ attr_source' = current'
    /\ state' = [e \in Entities |-> PAUSED]
    /\ text' = [e \in Entities |-> Txt("init", None, 0)]
    /\ image' = [e \in Entities |->
                   IF e = "dashboard" THEN SourceImage("System Overview")
                   ELSE "surveillance_status.png"]
    /\ polling_task' = [e \in Entities |-> 0]
    /\ task' = Collect(task, polling_task', handler)
    /\ last' = [NoLast EXCEPT !.kind = "setup_complete"]
    /\ startObs' = NoStart
    /\ UNCHANGED <<focus, surveillance, handler, reg, shown, snap, device_state,
                   monitoring_task, mtask>>

\* driver.on_connect; api.set_device_state is taken to complete without
\* suspending the handler. A client that is there and not connected logs in
\* again with the code it holds; a client built here gets "otp_code=None".
OnConnect(ans) ==
    /\ focus = "driver"
    /\ client' = on_connect(client, connected, configured, ans).client
    /\ connected' = on_connect(client, connected, configured, ans).conn
    /\ device_state' = on_connect(client, connected, configured, ans).reports[2]
    /\ last' = [NoLast EXCEPT
                  !.kind = "on_connect",
                  !.was = IF client /\ ~connected THEN "disconnected" ELSE None,
                  !.attempts = reconnect_attempts(client, connected, ans = "ok"),
                  !.changed = ~client /\ configured,
                  !.reports = on_connect(client, connected, configured, ans).reports]
    /\ otp' = IF client
              THEN IF connected THEN [otp EXCEPT !.sent = None] ELSE login(otp)
              ELSE IF configured
              THEN login([otp EXCEPT !.held = None, !.used = FALSE])
              ELSE [otp EXCEPT !.sent = None]
    /\ startObs' = NoStart
    /\ EntitiesUntouched
    /\ UNCHANGED <<focus, remote_state, remote_client, configured, entities,
                   monitoring_task, mtask>>

\* The monitoring task on_subscribe_entities creates.
StartedMonitor(mt) ==
    [mt EXCEPT ![NewMonitor] = [pc |-> "new", cancel |-> FALSE, failures |-> 0]]

\* driver.on_subscribe_entities([e]): the reconnection attempt, the
\* push_initial_state of the entity when the driver has created it, and the
\* start of the monitoring task.
OnSubscribe(e, ans, a) ==
    /\ focus = "driver"
    /\ LET held == IF e \in Entities THEN e ELSE "dashboard"
           pre == [W(held) EXCEPT
                     !.conn = subscribe_reconnect(client, connected, ans)]
           w == IF e \notin entities THEN pre
                ELSE IF e = "dashboard"
                THEN dashboard_push_initial_state(pre, a[1], Tid)
                ELSE IF e = "camera"
                THEN camera_push_initial_state(pre, a[2], a[3], Tid)
                ELSE pre
           mk == starts_monitoring(monitoring_task, mtask, client, w.conn)
           h == IF mk THEN NewMonitor ELSE monitoring_task
       IN /\ ~w.susp
          /\ mk => FreeMonitors # {}
          /\ CommitEntity(held, w, task, handler,
                          [NoLast EXCEPT !.kind = "on_subscribe", !.ent = e,
                                         !.calls = IF mk THEN 1 ELSE 0,
                                         !.running = Cardinality(UnfinishedMonitors)])
          /\ remote_state' = IF e = "remote" /\ e \in entities
                             THEN remote_push_initial_state(remote_client # None, w.conn)
                             ELSE remote_state
          /\ monitoring_task' = h
          /\ mtask' = CollectMonitors(IF mk THEN StartedMonitor(mtask) ELSE mtask,
                                      h, handler)
    /\ UNCHANGED <<focus, remote_client, client, configured, entities, device_state>>

\* on_disconnect from the stop() of the first entity of es on, up to its next
\* await of a cancelled polling task or to its return; e0 and w0 are the entity
\* whose stop() just ended and its view, hd the parked coroutines without this
\* one.
StopEntities(es, e0, w0, hd) ==
    LET pt == [polling_task EXCEPT ![e0] = w0.ptask]
        e == NextStop(es, pt)
        free == {i \in HandlerIds : hd[i].kind = "idle"}
        slot == CHOOSE i \in free : \A j \in free : i <= j
    IN IF e = None
       THEN CommitEntity(e0, w0, task, hd,
                         [NoLast EXCEPT !.kind = "on_disconnect",
                                        !.reports = <<DISCONNECTED>>])
       ELSE /\ free # {}
            /\ CommitEntity(e0, w0, [task EXCEPT ![pt[e]].cancel = TRUE],
                            [hd EXCEPT ![slot] =
                                ParkedDisconnect("await_loop", e, pt[e], 0)],
                            NoLast)

\* driver.on_disconnect up to its first suspending await: the report, the
\* cancel() of the monitoring task, the stop() of the entities.
OnDisconnect ==
    /\ focus = "driver"
    /\ device_state' = DISCONNECTED
    /\ IF MonitorRunning(monitoring_task, mtask)
       THEN /\ FreeHandlers # {}
            /\ mtask' = [mtask EXCEPT ![monitoring_task].cancel = TRUE]
            /\ CommitEntity("dashboard", W("dashboard"), task,
                            [handler EXCEPT ![NewHandler] =
                                ParkedDisconnect("await_monitor", None, 0,
                                                 monitoring_task)],
                            NoLast)
       ELSE /\ mtask' = mtask
            /\ StopEntities(StopOrder, "dashboard", W("dashboard"), handler)
    /\ UNCHANGED <<focus, remote_state, remote_client, client, configured,
                   entities, monitoring_task>>

\* on_disconnect parked at "await _monitoring_task" is resumed: the task has
\* finished; "_monitoring_task = None", then the stop() of the entities.
ResumeMonitorStop(i) ==
    /\ handler[i].pc = "await_monitor"
    /\ mtask[handler[i].mon].pc = "done"
    /\ monitoring_task' = 0
    /\ mtask' = CollectMonitors(mtask, 0, [handler EXCEPT ![i] = IdleHandler])
    /\ StopEntities(StopOrder, "dashboard", W("dashboard"),
                    [handler EXCEPT ![i] = IdleHandler])
    /\ UNCHANGED <<focus, remote_state, remote_client, client, configured,
                   entities, device_state>>

\* on_disconnect parked in the stop() of an entity is resumed: the polling task
\* has finished; "self._polling_task = None", then the stop() of the entities
\* that follow.
ResumeLoopStop(i) ==
    /\ handler[i].pc = "await_loop"
    /\ await_task(handler[i].wait)
    /\ StopEntities(StopAfter(handler[i].ent), handler[i].ent,
                    stop_tail(W(handler[i].ent)),
                    [handler EXCEPT ![i] = IdleHandler])
    /\ UNCHANGED <<focus, remote_state, drv>>

\* One pass of _background_monitoring_loop, from its start or from a sleep that
\* ended to the next sleep.
MonitorPass(m, hc, rc) ==
    /\ mtask[m].pc \in {"new", "sleep"}
    /\ ~mtask[m].cancel
    /\ monitoring_pass(client, connected, mtask[m].failures, hc, rc).failures
            <= MaxFailures
    /\ mtask' = [mtask EXCEPT
                   ![m].pc = "sleep",
                   ![m].failures =
                       monitoring_pass(client, connected, mtask[m].failures, hc,
                                       rc).failures]
    /\ last' = [NoLast EXCEPT
                  !.kind = "health", !.src = hc,
                  !.was = mtask[m].failures,
                  !.interval =
                      monitoring_sleep(FALSE,
                          monitoring_pass(client, connected, mtask[m].failures,
                                          hc, rc).failures),
                  !.failures =
                      monitoring_pass(client, connected, mtask[m].failures, hc,
                                      rc).failures,
                  !.calls =
                      monitoring_pass(client, connected, mtask[m].failures, hc,
                                      rc).reconnects]
    /\ startObs' = NoStart
    /\ EntitiesUntouched
    /\ UNCHANGED <<focus, remote_state, connected, remote_client, client,
                   configured, entities, device_state, monitoring_task, otp>>

\* The monitoring task gets the CancelledError at its sleep (or before its
\* first step) and ends.
MonitorCancelled(m) ==
    /\ mtask[m].pc \in {"new", "sleep"}
    /\ mtask[m].cancel
    /\ mtask' = CollectMonitors([mtask EXCEPT ![m].pc = "done"], monitoring_task,
                                handler)
    /\ last' = NoLast
    /\ startObs' = NoStart
    /\ EntitiesUntouched
    /\ UNCHANGED <<focus, remote_state, connected, remote_client, client,
                   configured, entities, device_state, monitoring_task, otp>>

\* ------------------------------------------------------------- inputs
\* The source values a SELECT_SOURCE may carry.
SourceValues(e) ==
    IF e = "dashboard" THEN {"System Overview", "Storage Status", "Bogus"}
    ELSE {AllCameras, CamName}

Params(e, r) ==
    IF r = "select" THEN ParamShapes \cup {""} \cup SourceValues(e)
    ELSE {"<noparams>"}

\* The answers of the device that a step of entity e can depend on: of a
\* fetch + format (outs), of camera_list() (cls), of a snapshot retrieval (sos).
Answers(e, r, p, outs, cls, sos) ==
    IF \/ r \in {"suppressed", "not_implemented"}
       \/ r = "select" /\ p \notin SourceValues(e)
       \/ r = "on" /\ e = "camera"
    THEN {<<"data", "none", "sync_fail">>}
    ELSE IF e = "dashboard" THEN {<<out, "none", "sync_fail">> : out \in outs}
    ELSE IF r = "select" THEN {<<"data", "none", so>> : so \in sos}
    ELSE {<<"data", cl, so>> : cl \in cls, so \in sos}

AllAnswers(e, r, p) ==
    Answers(e, r, p, FetchOutcomes, {"none", "offline", "online"}, SnapshotOutcomes)

RemoteParams(cmd) ==
    IF cmd = SEND_CMD
    THEN ParamShapes \cup {""} \cup SYSTEM_COMMANDS \cup {"OTHER"}
    ELSE {"<noparams>"}

\* The commands that are answered without waiting for a loop to end, and the
\* subscriptions; a loop that was started stays parked before its first pass.
Next ==
    \/ \E e \in Entities, cmd \in CommandIds :
          \E p \in Params(e, route(e, cmd)) :
             \E a \in AllAnswers(e, route(e, cmd), p) : Command(e, cmd, p, a)
    \/ \E e \in Entities, rc \in BOOLEAN : \E a \in AllAnswers(e, "refresh", None) :
          Subscribe(e, rc, a)
    \/ \E i \in HandlerIds, ok \in BOOLEAN : ResumeSnapshot(i, ok)
    \/ \E cmd \in RemoteCommandIds, dev \in DeviceAnswers :
          \E p \in RemoteParams(cmd) : RemoteCommand(cmd, p, dev)
    \/ \E c \in {None, "updated"} : UpdateClient(c)
    \/ ClientDisconnect
    \/ ClientConnect
    \/ SurveillanceOpened
    \/ CacheExpires

Spec == Init /\ [][Next]_vars

\* The answers that decide how a loop goes on: a fetch gives a record or
\* raises, the camera is there or not, its snapshot is awaited or not.
EngineAnswers(e, r, p) ==
    Answers(e, r, p, {"data", "error"}, {"none", "online"}, {"await", "sync_fail"})

\* The camera loop is moved between the overview and the single camera, whose
\* display awaits the snapshot.
EngineParams(e, r) ==
    IF r = "select" THEN SourceValues(e) \cap {AllCameras, CamName}
    ELSE {"<noparams>"}

EngineInit == Init /\ focus \in Entities

\* The polling loops with the handlers that start and stop them.
EngineNext ==
    \/ \E e \in Entities, cmd \in {SELECT_SOURCE, ON} :
          \E p \in EngineParams(e, route(e, cmd)) :
             \E a \in EngineAnswers(e, route(e, cmd), p) : Command(e, cmd, p, a)
    \/ \E e \in Entities : PowerOff(e)
    \/ \E e \in Entities, rc \in BOOLEAN : \E a \in EngineAnswers(e, "refresh", None) :
          Subscribe(e, rc, a)
    \/ \E e \in Entities : Disconnect(e)
    \/ \E i \in HandlerIds, ok \in BOOLEAN : ResumeSnapshot(i, ok)
    \/ \E i \in HandlerIds : ResumeStop(i)
    \/ \E t \in TaskIds : TaskCancelled(t)
    \/ \E t \in TaskIds, out \in {"data", "error"} : DashboardTick(t, out)
    \/ \E t \in TaskIds, cl \in {"none", "online"}, so \in {"await", "sync_fail"} :
          CameraTick(t, cl, so)
    \/ \E t \in TaskIds, ok \in BOOLEAN : CameraTickResume(t, ok)
    \/ ClientDisconnect
    \/ ClientConnect
    \/ SurveillanceOpened
    \/ CacheExpires

EngineSpec == EngineInit /\ [][EngineNext]_vars

\* The sources the loops are moved between while they run: a display name of
\* the registry and a bare registry key, the overview and the single camera.
LoopSources(e) ==
    IF e = "dashboard" THEN {"System Overview", "SECURITY_STATUS"}
    ELSE {AllCameras, CamName}

\* The polling loops from subscription to disconnect, with every outcome of a
\* fetch, while the client loses and regains the device.
LoopNext ==
    \/ \E e \in Entities : \E p \in LoopSources(e) :
          Command(e, SELECT_SOURCE, p, <<"data", "none", "sync_fail">>)
    \/ \E e \in Entities, rc \in BOOLEAN : \E a \in EngineAnswers(e, "refresh", None) :
          Subscribe(e, rc, a)
    \/ \E e \in Entities : Disconnect(e)
    \/ \E i \in HandlerIds, ok \in BOOLEAN : ResumeSnapshot(i, ok)
    \/ \E i \in HandlerIds : ResumeStop(i)
    \/ \E t \in TaskIds : TaskCancelled(t)
    \/ \E t \in TaskIds, out \in FetchOutcomes : DashboardTick(t, out)
    \/ \E t \in TaskIds, cl \in {"none", "online"}, so \in {"await", "sync_fail"} :
          CameraTick(t, cl, so)
    \/ \E t \in TaskIds, ok \in BOOLEAN : CameraTickResume(t, ok)
    \/ ClientDisconnect
    \/ ClientConnect
    \/ SurveillanceOpened
    \/ CacheExpires

LoopSpec == EngineInit /\ [][LoopNext]_vars

\* The event loop runs every task and coroutine that is ready: a cancelled loop
\* gets its CancelledError, a coroutine whose awaited task or call has finished
\* is resumed.
EngineFairness ==
    /\ \A t \in TaskIds : WF_vars(TaskCancelled(t))
    /\ \A i \in HandlerIds : WF_vars(ResumeStop(i))

FairEngineSpec == EngineSpec /\ EngineFairness

PowerInit == Init /\ focus = "dashboard"

\* One command identifier of every branch of handle_command, and the sources
\* a selection names.
PowerCommands ==
    {SELECT_SOURCE, ON, VOLUME_UP, VOLUME_DOWN, "REFRESH_STATUS", "play_pause",
     "mute_toggle"}

PowerParams(r) ==
    IF r = "select" THEN SourceValues("dashboard") ELSE {"<noparams>"}

\* The dashboard alone: commands of every branch, power-off included,
\* subscriptions and the passes of its loop, with every outcome of a fetch.
PowerNext ==
    \/ \E cmd \in PowerCommands :
          \E p \in PowerParams(route("dashboard", cmd)) :
             \E a \in AllAnswers("dashboard", route("dashboard", cmd), p) :
                Command("dashboard", cmd, p, a)
    \/ PowerOff("dashboard")
    \/ \E rc \in BOOLEAN : \E a \in AllAnswers("dashboard", "refresh", None) :
          Subscribe("dashboard", rc, a)
    \/ \E i \in HandlerIds : ResumeStop(i)
    \/ \E t \in TaskIds : TaskCancelled(t)
    \/ \E t \in TaskIds, out \in FetchOutcomes : DashboardTick(t, out)
    \/ ClientDisconnect
    \/ ClientConnect

PowerSpec == PowerInit /\ [][PowerNext]_vars

RemoteInit == Init /\ focus = "remote"

\* The remote entity alone: its commands, update_client, and the client losing
\* and regaining the device.
RemoteNext ==
    \/ \E cmd \in RemoteCommandIds, dev \in DeviceAnswers :
          \E p \in RemoteParams(cmd) : RemoteCommand(cmd, p, dev)
    \/ \E c \in {None, "updated"} : UpdateClient(c)
    \/ ClientDisconnect
    \/ ClientConnect

RemoteSpec == RemoteInit /\ [][RemoteNext]_vars

\* The integration once the driver module is loaded: no client, no entity; the
\* configuration file of an earlier setup is there or not.
DriverInit ==
    /\ focus = "driver"
    /\ connected = FALSE
    /\ Constructed
    /\ remote_client = None
    /\ client = FALSE
    /\ configured \in BOOLEAN
    /\ entities = {}
    /\ EngineConfig

\* The setup flow of an installation that has no entities yet, the OTP field
\* left empty.
FirstSetup(sv) ==
    /\ entities = {}
    /\ SetupComplete(sv, "")

\* The hub's lifecycle events with the monitoring task and the polling tasks
\* they start and stop; a polling task stays parked until it is cancelled.
DriverNext ==
    \/ \E sv \in BOOLEAN : FirstSetup(sv)
    \/ \E ans \in ConnectAnswers : OnConnect(ans)
    \/ \E e \in Units, ans \in ConnectAnswers :
          \E a \in {<<"data", "online", "sync_fail">>} : OnSubscribe(e, ans, a)
    \/ OnDisconnect
    \/ \E i \in HandlerIds : ResumeMonitorStop(i)
    \/ \E i \in HandlerIds : ResumeLoopStop(i)
    \/ \E m \in MonitorIds, hc \in HealthAnswers : MonitorPass(m, hc, TRUE)
    \/ \E m \in MonitorIds : MonitorCancelled(m)
    \/ \E t \in TaskIds : TaskCancelled(t)
    \/ SurveillanceOpened

DriverSpec == DriverInit /\ [][DriverNext]_vars

\* driver.main ends and the process is started again: every object is gone and
\* built anew, the configuration file is what the last setup stored.
Restart ==
    /\ focus = "driver"
    /\ connected' = FALSE
    /\ surveillance' = FALSE
    /\ remote_client' = None
    /\ client' = FALSE
    /\ entities' = {}
    /\ remote_state' = "OFF"
    /\ cameras' = NoCameras
    /\ snapshot_cache' = "none"
    /\ current' = [e \in Entities |->
                     IF e = "dashboard" THEN "System Overview" ELSE AllCameras]
    /\ attr_source' = current'
    /\ state' = [e \in Entities |-> PAUSED]
    /\ text' = [e \in Entities |-> Txt("init", None, 0)]
    /\ image' = [e \in Entities |->
                   IF e = "dashboard" THEN SourceImage("System Overview")
                   ELSE "surveillance_status.png"]
    /\ polling_task' = [e \in Entities |-> 0]
    /\ task' = [t \in TaskIds |-> NoTask]
    /\ handler' = [i \in HandlerIds |-> IdleHandler]
    /\ device_state' = DISCONNECTED
    /\ monitoring_task' = 0
    /\ mtask' = [m \in MonitorIds |-> NoMonitor]
    /\ otp' = [NoOtp EXCEPT !.stored = otp.stored]
    /\ last' = [NoLast EXCEPT !.kind = "restart"]
    /\ startObs' = NoStart
    /\ UNCHANGED <<focus, configured, reg, shown, snap>>

\* The setup flow run any number of times between the hub's connections,
\* subscriptions and disconnections and restarts of the process.
SetupNext ==
    \/ \E sv \in BOOLEAN, code \in OtpCodes : SetupComplete(sv, code)
    \/ \E ans \in ConnectAnswers : OnConnect(ans)
    \/ Restart
    \/ \E e \in Units, a \in {<<"data", "online", "sync_fail">>} :
          OnSubscribe(e, "ok", a)
    \/ OnDisconnect
    \/ \E i \in HandlerIds : ResumeMonitorStop(i)
    \/ \E i \in HandlerIds : ResumeLoopStop(i)
    \/ \E m \in MonitorIds : MonitorCancelled(m)
    \/ \E t \in TaskIds : TaskCancelled(t)

SetupSpec == DriverInit /\ [][SetupNext]_vars

\* ---------------------------------------------------- the source registry
\* The flags of enabled_features and the packages a setup can detect.
FlagNames ==
    {"network_monitoring", "security_monitoring", "enhanced_monitoring",
     "docker_monitoring", "surveillance_monitoring"}

PackageNames == {"Docker", "SurveillanceStation", "HyperBackup"}

\* enabled_features as a configuration file can hold it: each flag set, cleared
\* or missing.
FeatureDicts == UNION {[D -> BOOLEAN] : D \in SUBSET FlagNames}

\* SynologyConfig.update_available_packages(packages): the packages are stored
\* and the flag of a detected Docker or Surveillance Station is set.
DetectedFlags(pk) ==
    (IF "Docker" \in pk THEN {"docker_monitoring"} ELSE {})
    \cup (IF "SurveillanceStation" \in pk THEN {"surveillance_monitoring"} ELSE {})

update_available_packages(f, pk) ==
    [k \in DOMAIN f \cup DetectedFlags(pk) |->
        IF k \in DetectedFlags(pk) THEN TRUE ELSE f[k]]

\* What a step on the configuration leaves alone.
ConfigStep(kind) ==
    /\ focus = "registry"
    /\ last' = [NoLast EXCEPT !.kind = kind]
    /\ startObs' = NoStart
    /\ UNCHANGED <<focus, remote_state, connected, surveillance, cameras,
                   snapshot_cache, current, attr_source, state, text, image,
                   polling_task, task, handler, drv, shown, snap, otp>>

\* setup.py: the packages found on the device are written to the configuration.
UpdateAvailablePackages(pk) ==
    /\ ConfigStep("update_available_packages")
    /\ features' = update_available_packages(features, pk)
    /\ packages' = pk
    /\ enabled' = <<>>

\* SynologyConfig.get_enabled_sources(): the registry of the configuration as
\* it is now.
GetEnabledSources ==
    /\ ConfigStep("get_enabled_sources")
    /\ enabled' = get_enabled_sources(features, packages)
    /\ UNCHANGED <<features, packages>>

\* A configuration file with any flags and any detected packages, loaded and
\* not yet asked for its sources.
RegistryInit ==
    /\ focus = "registry"
    /\ connected = FALSE
    /\ Constructed
    /\ remote_client = None
    /\ client = FALSE
    /\ configured = TRUE
    /\ entities = {}
    /\ features \in FeatureDicts
    /\ packages \in SUBSET PackageNames
    /\ enabled = <<>>

RegistryNext ==
    \/ GetEnabledSources
    \/ \E pk \in SUBSET PackageNames : UpdateAvailablePackages(pk)

RegistrySpec == RegistryInit /\ [][RegistryNext]_vars

\* ------------------------------------------------------------- display lines
\* helpers.py create_two_line_display: "max_length: int = 80".
max_length == 80

\* "if len(line) > max_length: line = line[:max_length-3] + '...'"
Cut(l) ==
    IF l.len > max_length THEN [len |-> (max_length - 3) + 3, ellipsis |-> TRUE]
    ELSE l

create_two_line_display(line1, line2) ==
    [title |-> Cut(line1), subtitle |-> Cut(line2)]

\* The formatters of media_player.py that pass their lines through
\* create_two_line_display; the other nine assign them as they composed them.
TruncatingUpdaters ==
    {"SYSTEM_OVERVIEW", "STORAGE_STATUS", "SERVICES_STATUS", "SECURITY_STATUS",
     "DOCKER_STATUS", "SURVEILLANCE_STATUS", "THERMAL_STATUS", "RAID_STATUS",
     "DRIVE_HEALTH"}

\* The lengths of the two lines a formatter composes for a record with data,
\* without the strings the device supplies: the literal text, the status word
\* and numbers of usual width (a temperature as format_temperature writes it,
\* a cache of 100.0GB with read and write hit rates).
Literal(key) ==
    CASE key = "SYSTEM_OVERVIEW" -> <<10, 33>>
      [] key = "STORAGE_STATUS" -> <<17, 11>>
      [] key = "NETWORK_STATS" -> <<22, 23>>
      [] key = "SERVICES_STATUS" -> <<24, 24>>
      [] key = "SECURITY_STATUS" -> <<17, 29>>
      [] key = "DOCKER_STATUS" -> <<16, 23>>
      [] key = "SURVEILLANCE_STATUS" -> <<21, 25>>
      [] key = "THERMAL_STATUS" -> <<17, 25>>
      [] key = "CACHE_STATUS" -> <<36, 18>>
      [] key = "RAID_STATUS" -> <<18, 19>>
      [] key = "VOLUME_STATUS" -> <<29, 17>>
      [] key = "UPS_STATUS" -> <<12, 29>>
      [] key = "HARDWARE_MONITOR" -> <<38, 18>>
      [] key = "DRIVE_HEALTH" -> <<22, 12>>
      [] key = "POWER_MANAGEMENT" -> <<31, 9>>
      [] key = "CACHE_PERFORMANCE" -> <<81, 16>>
      [] key = "PACKAGE_MANAGER" -> <<39, 15>>
      [] key = "USER_SESSIONS" -> <<20, 22>>
      [] OTHER -> <<0, 0>>

\* The lengths of the two lines of a formatter's "else" branch, for a record
\* it takes as no data.
Fallback(key) ==
    CASE key = "NETWORK_STATS" -> <<24, 18>>
      [] key = "SERVICES_STATUS" -> <<15, 31>>
      [] key = "THERMAL_STATUS" -> <<15, 30>>
      [] key = "CACHE_STATUS" -> <<35, 20>>
      [] key = "RAID_STATUS" -> <<11, 28>>
      [] key = "VOLUME_STATUS" -> <<30, 12>>
      [] key = "UPS_STATUS" -> <<11, 27>>
      [] key = "HARDWARE_MONITOR" -> <<25, 16>>
      [] key = "DRIVE_HEALTH" -> <<12, 29>>
      [] key = "POWER_MANAGEMENT" -> <<48, 11>>
      [] key = "CACHE_PERFORMANCE" -> <<49, 11>>
      [] key = "PACKAGE_MANAGER" -> <<47, 11>>
      [] key = "USER_SESSIONS" -> <<24, 13>>
      [] OTHER -> <<0, 0>>

\* The lengths the strings of the device can have that a formatter puts into
\* its first line: the model name (overview), the RAID level, the UPS model,
\* model name and UPS model (power management), the id of the cache.
DeviceStringLens(key) ==
    CASE key = "SYSTEM_OVERVIEW" -> {6, 90}
      [] key = "RAID_STATUS" -> {3, 90}
      [] key = "UPS_STATUS" -> {10, 70}
      [] key = "POWER_MANAGEMENT" -> {19, 60}
      [] key = "CACHE_PERFORMANCE" -> {11}
      [] OTHER -> {0}

\* How a formatter takes the record of its fetch: a record with data, or one
\* it treats as none.
RecordShapes == {"data", "empty"}

\* The _update_*_display formatter of a key applied to a record of the shape,
\* whose device strings in the first line are d long; old are the lines shown
\* before.
format_lines(key, shape, d, old) ==
    LET composed == IF shape = "data"
                    THEN <<Literal(key)[1] + d, Literal(key)[2]>>
                    ELSE Fallback(key)
    IN IF shape = "empty" /\ key \in GuardedUpdaters
       THEN [title |-> old.title, subtitle |-> old.subtitle]
       ELSE IF key \in TruncatingUpdaters
       THEN create_two_line_display(Line(composed[1]), Line(composed[2]))
       ELSE [title |-> Line(composed[1]), subtitle |-> Line(composed[2])]

\* What a step on the display leaves alone.
DisplayStep(kind, key) ==
    /\ focus = "display"
    /\ last' = [NoLast EXCEPT
                   !.kind = kind, !.ent = "dashboard", !.src = key,
                   !.interval = IF kind = "tick"
                                THEN tick_interval("dashboard", DisplayName(key), FALSE)
                                ELSE 0]
    /\ startObs' = NoStart
    /\ UNCHANGED <<focus, remote_state, connected, surveillance, cameras,
                   snapshot_cache, current, attr_source, state, text, image,
                   polling_task, task, handler, drv, reg, snap, otp>>

\* The source of registry key i is selected and one pass of the polling loop
\* fetches and formats its record and computes its sleep.
SelectAndTick(i, shape, d) ==
    /\ i \in 1..Len(enabled)
    /\ d \in DeviceStringLens(enabled[i])
    /\ DisplayStep("tick", enabled[i])
    /\ shown' = [key |-> enabled[i], note |-> None, cache_enabled |-> None,
                 cache_size |-> 0, divisors |-> {}]
                @@ format_lines(enabled[i], shape, d, shown)

\* A fetch that would compute the usage without looking at the total size.
cache_usage_unguarded(total, used) ==
    [pct |-> IF total = 0 THEN 0 ELSE (used * 100) \div total, divisors |-> {total}]

\* get_cache_status: "if total_cache_size > 0: cache_usage_pct =
\* (used_cache_size / total_cache_size) * 100"; the divisors of the divisions
\* made are kept.
cache_usage(total, used) ==
    IF total > 0 THEN [pct |-> (used * 100) \div total, divisors |-> {total}]
    ELSE [pct |-> 0, divisors |-> {}]

\* How the storage call of get_cache_status can go.
StorageAnswers == {"ok", "raise"}

\* The total and used sizes the caches of the device can add up to.
CacheSizes == {0, 100}
CacheUsed == {0, 50}

\* SynologySystemClient.get_cache_status: the record for a client that is
\* connected or not, a storage call that answers or raises, caches caches of
\* total size total of which used are occupied.
get_cache_status(conn, ans, caches, total, used) ==
    LET off == [shape |-> "data", cache_enabled |-> "false", cache_usage |-> 0,
                divisors |-> {}]
    IN IF ~conn THEN off @@ [status |-> "unavailable"]
       ELSE IF ans = "raise" THEN off @@ [status |-> "error"]
       ELSE IF caches > 0
       THEN [shape |-> "data", status |-> "active", cache_enabled |-> "true",
             cache_usage |-> cache_usage(total, used).pct,
             divisors |-> cache_usage(total, used).divisors]
       ELSE off @@ [status |-> "disabled"]

\* _update_cache_status_display: "if data and data.get('cache_enabled', False)"
\* shows usage, hit rate and the status; every other record gives "No SSD cache
\* detected or configured" / "SSD Cache - Disabled". It divides nothing.
update_cache_status_display(rec) ==
    IF rec.shape = "data" /\ rec.cache_enabled = "true"
    THEN [title |-> Line(Literal("CACHE_STATUS")[1]),
          subtitle |-> Line(Literal("CACHE_STATUS")[2]), note |-> "status",
          divisors |-> {}]
    ELSE [title |-> Line(Fallback("CACHE_STATUS")[1]),
          subtitle |-> Line(Fallback("CACHE_STATUS")[2]), note |-> "disabled",
          divisors |-> {}]

\* The lines, the record and the divisors of a cache fetch + format.
CacheShown(rec, size, divs) ==
    [key |-> "CACHE_STATUS", cache_enabled |-> rec.cache_enabled,
     cache_size |-> size,
     title |-> update_cache_status_display(rec).title,
     subtitle |-> update_cache_status_display(rec).subtitle,
     note |-> update_cache_status_display(rec).note,
     divisors |-> divs \cup update_cache_status_display(rec).divisors]

\* One fetch + format of the SSD Cache source.
CacheTick(conn, ans, caches, total, used) ==
    /\ \E i \in 1..Len(enabled) : enabled[i] = "CACHE_STATUS"
    /\ caches = 0 => total = 0 /\ used = 0
    /\ used <= total
    /\ DisplayStep("cache_tick", "CACHE_STATUS")
    /\ shown' = CacheShown(get_cache_status(conn, ans, caches, total, used), total,
                           get_cache_status(conn, ans, caches, total, used).divisors)

\* The cache formatter applied to a record of any kind: empty or not, with
\* cache_enabled true, false or missing, with a total size of its own.
FormatCacheRecord(shape, ce, total) ==
    /\ \E i \in 1..Len(enabled) : enabled[i] = "CACHE_STATUS"
    /\ shape = "empty" => ce = "absent" /\ total = 0
    /\ DisplayStep("cache_format", "CACHE_STATUS")
    /\ shown' = CacheShown([shape |-> shape, cache_enabled |-> ce], total, {})

\* ------------------------------------------------------------ thermal display
\* A text is the sequence of its characters; the two characters outside ASCII
\* that helpers.py writes are named by their code points.
Chars(word) ==
    CASE word = "auto" ->
            <<"a", "u", "t", "o">>
      [] word = "full_speed" ->
            <<"f", "u", "l", "l", "_", "s", "p", "e", "e", "d">>
      [] word = "Optimal" ->
            <<"O", "p", "t", "i", "m", "a", "l">>
      [] word = "Normal" ->
            <<"N", "o", "r", "m", "a", "l">>
      [] word = "Warm" ->
            <<"W", "a", "r", "m">>
      [] word = "Hot" ->
            <<"H", "o", "t">>
      [] word = "Critical" ->
            <<"C", "r", "i", "t", "i", "c", "a", "l">>
      [] word = "Unavailable" ->
            <<"U", "n", "a", "v", "a", "i", "l", "a", "b", "l", "e">>
      [] word = "Error" ->
            <<"E", "r", "r", "o", "r">>
      [] word = "Unknown" ->
            <<"U", "n", "k", "n", "o", "w", "n">>
      [] word = "N/A" ->
            <<"N", "/", "A">>
      [] word = "Thermal - " ->
            <<"T", "h", "e", "r", "m", "a", "l", " ", "-", " ">>
      [] word = "Temp: " ->
            <<"T", "e", "m", "p", ":", " ">>
      [] word = " | Fan: " ->
            <<" ", "|", " ", "F", "a", "n", ":", " ">>
      [] word = "Thermal Monitor" ->
            <<"T", "h", "e", "r", "m", "a", "l", " ", "M", "o", "n", "i", "t", "o", "r">>
      [] word = "Temperature sensor unavailable" ->
            <<"T", "e", "m", "p", "e", "r", "a", "t", "u", "r", "e", " ", "s", "e", "n", "s", "o", "r", " ", "u", "n", "a", "v", "a", "i", "l", "a", "b", "l", "e">>
      [] OTHER -> <<>>

DigitChars == <<"0", "1", "2", "3", "4", "5", "6", "7", "8", "9">>

RECURSIVE Decimal(_)
Decimal(n) ==
    IF n < 10 THEN <<DigitChars[n + 1]>>
    ELSE Decimal(n \div 10) \o <<DigitChars[(n % 10) + 1]>>

\* The format specification ".1f" applied to a value given in tenths.
OneDecimal(tenths) ==
    Decimal(tenths \div 10) \o <<".", DigitChars[(tenths % 10) + 1]>>

\* helpers.py celsius_to_fahrenheit "(celsius * 9/5) + 32", in tenths.
celsius_to_fahrenheit(tenths) == (tenths * 9) \div 5 + 320

\* helpers.py format_temperature. The unit suffix in the source file is the
\* three characters U+00C2 U+00B0 and the letter (bytes c3 82 c2 b0 43).
format_temperature(temp_celsius, unit) ==
    IF lower(unit) = "fahrenheit"
    THEN OneDecimal(celsius_to_fahrenheit(temp_celsius * 10))
            \o <<"U+00C2", "U+00B0", "F">>
    ELSE OneDecimal(temp_celsius * 10) \o <<"U+00C2", "U+00B0", "C">>

\* The temperatures sys_temp can report, the units setup.py lets through, and
\* what the system information says of the fan ("fan_status", else
\* "cooling_mode", else neither).
Temps == {0, 45, 65, 95}
TemperatureUnits == {"celsius", "fahrenheit"}
FanReports == {"absent", "auto", "full_speed"}

\* get_thermal_status: the status word of a temperature.
thermal_status(temp_c) ==
    IF temp_c = 0 THEN "unavailable"
    ELSE IF temp_c < 60 THEN "optimal"
    ELSE IF temp_c < 70 THEN "normal"
    ELSE IF temp_c < 80 THEN "warm"
    ELSE IF temp_c < 90 THEN "hot"
    ELSE "critical"

\* SynologySystemClient.get_thermal_status; a key the record does not have is
\* "absent".
get_thermal_status(conn, ans, temp_c, fan, unit) ==
    IF ~conn
    THEN [shape |-> "data", status |-> "unavailable", system_temp |-> 0,
          temperature_formatted |-> Chars("N/A"), fan_mode |-> "absent"]
    ELSE IF ans = "raise"
    THEN [shape |-> "data", status |-> "error", system_temp |-> 0,
          temperature_formatted |-> Chars("Error"), fan_mode |-> "absent"]
    ELSE [shape |-> "data", status |-> thermal_status(temp_c),
          system_temp |-> temp_c,
          temperature_formatted |-> format_temperature(temp_c, unit),
          fan_mode |-> IF fan = "absent" THEN "full_speed" ELSE fan]

\* str.title() of a status word.
title(status) ==
    CASE status = "optimal" -> Chars("Optimal")
      [] status = "normal" -> Chars("Normal")
      [] status = "warm" -> Chars("Warm")
      [] status = "hot" -> Chars("Hot")
      [] status = "critical" -> Chars("Critical")
      [] status = "unavailable" -> Chars("Unavailable")
      [] status = "error" -> Chars("Error")
      [] OTHER -> Chars("Unknown")

\* create_two_line_display on one line of text.
cut_text(l) ==
    IF Len(l) > max_length THEN SubSeq(l, 1, max_length - 3) \o <<".", ".", ".">>
    ELSE l

\* _update_thermal_status_display: "if data and data.get('system_temp', 0) > 0".
update_thermal_status_display(rec) ==
    IF rec.shape = "data" /\ rec.system_temp > 0
    THEN <<cut_text(Chars("Thermal - ") \o title(rec.status)),
           cut_text(Chars("Temp: ") \o rec.temperature_formatted
                    \o Chars(" | Fan: ")
                    \o Chars(IF rec.fan_mode = "absent" THEN "auto"
                             ELSE rec.fan_mode))>>
    ELSE <<cut_text(Chars("Thermal Monitor")),
           cut_text(Chars("Temperature sensor unavailable"))>>

\* The thermal formatter has run on the record: the record, the unit and the
\* two lines are kept, the display shows lines of their lengths.
ThermalStep(kind, rec, unit) ==
    /\ focus = "display"
    /\ \E i \in 1..Len(enabled) : enabled[i] = "THERMAL_STATUS"
    /\ last' = [NoLast EXCEPT
                   !.kind = kind, !.ent = "dashboard", !.src = "THERMAL_STATUS",
                   !.fetched = rec, !.was = unit,
                   !.reports = update_thermal_status_display(rec)]
    /\ shown' = [key |-> "THERMAL_STATUS", note |-> None, cache_enabled |-> None,
                 cache_size |-> 0, divisors |-> {},
                 title |-> Line(Len(update_thermal_status_display(rec)[1])),
                 subtitle |-> Line(Len(update_thermal_status_display(rec)[2]))]
    /\ startObs' = NoStart
    /\ UNCHANGED <<focus, remote_state, connected, surveillance, cameras,
                   snapshot_cache, current, attr_source, state, text, image,
                   polling_task, task, handler, drv, reg, snap, otp>>

\* One fetch + format of the Temperature Monitor source.
ThermalTick(conn, ans, temp_c, fan, unit) ==
    /\ unit \in TemperatureUnits
    /\ ThermalStep("thermal_tick",
                   get_thermal_status(conn, ans, temp_c, fan, unit), unit)

\* The thermal formatter applied to a record that is empty, or that has a
\* system_temp and a status and neither of the other two keys.
FormatThermalRecord(shape, temp_c) ==
    /\ shape = "empty" => temp_c = 0
    /\ ThermalStep("thermal_format",
                   [shape |-> shape, status |-> thermal_status(temp_c),
                    system_temp |-> temp_c,
                    temperature_formatted |-> Chars("N/A"),
                    fan_mode |-> "absent"],
                   None)

\* A dashboard built from a configuration file with any flags and any detected
\* packages, showing its initial lines.
DisplayInit ==
    /\ focus = "display"
    /\ connected = TRUE
    /\ Constructed
    /\ remote_client = "setup"
    /\ client = TRUE
    /\ configured = TRUE
    /\ entities = Units
    /\ features \in [FlagNames -> BOOLEAN]
    /\ packages \in SUBSET {"Docker", "SurveillanceStation"}
    /\ enabled = DashboardSources(features, packages)

DisplayNext ==
    \/ \E i \in 1..SourceLimit, shape \in RecordShapes :
          \E d \in UNION {DeviceStringLens(k) : k \in FetcherKeys} :
             SelectAndTick(i, shape, d)
    \/ \E conn \in BOOLEAN, ans \in StorageAnswers, caches \in {0, 1} :
          \E total \in CacheSizes, used \in CacheUsed :
             CacheTick(conn, ans, caches, total, used)
    \/ \E shape \in RecordShapes, ce \in {"true", "false", "absent"} :
          \E total \in CacheSizes : FormatCacheRecord(shape, ce, total)
    \/ \E conn \in BOOLEAN, ans \in StorageAnswers, temp_c \in Temps :
          \E fan \in FanReports, unit \in TemperatureUnits :
             ThermalTick(conn, ans, temp_c, fan, unit)
    \/ \E shape \in RecordShapes, temp_c \in Temps :
          FormatThermalRecord(shape, temp_c)

DisplaySpec == DisplayInit /\ [][DisplayNext]_vars

\* ------------------------------------------------------------- source limit
\* A registry that holds k more sources after those of get_enabled_sources,
\* each entry the key and its number among the added ones (0: not added).
Registered(s, k) ==
    [i \in 1..Len(s) |-> <<s[i], 0>>] \o [i \in 1..k |-> <<"EXTRA", i>>]

\* _get_enabled_sources of the dashboard for a registry of the configuration's
\* sources followed by k more: the list kept, and the registry it was cut from.
LimitSources(k) ==
    /\ focus = "limit"
    /\ enabled' = limit_sources(
                     Registered(get_enabled_sources(features, packages), k))
    /\ last' = [NoLast EXCEPT
                  !.kind = "limit",
                  !.reports =
                      Registered(get_enabled_sources(features, packages), k)]
    /\ startObs' = NoStart
    /\ UNCHANGED <<focus, remote_state, connected, surveillance, cameras,
                   snapshot_cache, current, attr_source, state, text, image,
                   polling_task, task, handler, drv, features, packages, shown,
                   snap, otp>>

\* A configuration with every flag set or cleared and any detected packages,
\* its dashboard not yet constructed.
LimitInit ==
    /\ focus = "limit"
    /\ connected = FALSE
    /\ Constructed
    /\ remote_client = None
    /\ client = FALSE
    /\ configured = TRUE
    /\ entities = {}
    /\ features \in [FlagNames -> BOOLEAN]
    /\ packages \in SUBSET PackageNames
    /\ enabled = <<>>

LimitNext == \E k \in 0..MaxExtra : LimitSources(k)

LimitSpec == LimitInit /\ [][LimitNext]_vars

\* ------------------------------------------------------------- snapshot cache
\* "(current_time - cached_snapshot.get('timestamp', 0)) < 30"
FreshFor == 30

\* A test that would still take an entry of exactly 30 seconds as fresh.
is_fresh_inclusive(cached, t) == \E ts \in cached : t - ts <= FreshFor

\* "cached_snapshot and (current_time - timestamp) < 30"
is_fresh(cached, t) == \E ts \in cached : t - ts < FreshFor

\* _get_camera_snapshot_home_assistant_method up to its return or to the await
\* of get_camera_image, for a request made at time t: what it returns, the
\* device calls it made, the cache entry it leaves, whether it is parked.
get_camera_snapshot(known, cached, t, so) ==
    IF ~known
    THEN [result |-> "", calls |-> 0, cached |-> cached, parked |-> FALSE]
    ELSE IF is_fresh(cached, t)
    THEN [result |-> "cached", calls |-> 0, cached |-> cached, parked |-> FALSE]
    ELSE IF so = "await"
    THEN [result |-> "pending", calls |-> 1, cached |-> cached, parked |-> TRUE]
    ELSE IF so = "sync_ok"
    THEN [result |-> "snapshot", calls |-> 1, cached |-> {t}, parked |-> FALSE]
    ELSE [result |-> "", calls |-> 1, cached |-> cached, parked |-> FALSE]

\* The rest of it once get_camera_image has answered, for the request made at
\* t0: an image is stored under the time of the request; without one the
\* synchronous get_snapshot is tried (fb: it gives an image).
camera_snapshot_resumed(cached, t0, ok, fb) ==
    IF ok THEN [result |-> "snapshot", calls |-> 0, cached |-> {t0}]
    ELSE IF fb THEN [result |-> "snapshot", calls |-> 1, cached |-> {t0}]
    ELSE [result |-> "", calls |-> 1, cached |-> cached]

\* What a step on the snapshot cache leaves alone.
SnapshotStep ==
    /\ focus = "snapshot"
    /\ startObs' = NoStart
    /\ UNCHANGED <<focus, remote_state, connected, surveillance, cameras,
                   snapshot_cache, current, attr_source, state, text, image,
                   polling_task, task, handler, drv, reg, shown, otp>>

\* A second passes.
ClockTick ==
    /\ snap.now < MaxTime
    /\ SnapshotStep
    /\ snap' = [snap EXCEPT !.now = @ + 1]
    /\ last' = NoLast

\* The snapshot of the camera is requested (known: the camera is in _cameras
\* with an id).
SnapshotRequest(known, so) ==
    /\ SnapshotStep
    /\ LET r == get_camera_snapshot(known, snap.cached, snap.now, so)
       IN /\ r.parked => snap.pending = {}
          /\ snap' = [snap EXCEPT !.cached = r.cached,
                                  !.pending = IF r.parked THEN {snap.now} ELSE @]
          /\ last' = [NoLast EXCEPT !.kind = "snapshot", !.ent = "camera",
                                    !.result = r.result, !.calls = r.calls,
                                    !.reports = <<snap.cached, {snap.now}>>,
                                    !.changed = known]

\* get_camera_image answers the request that is parked in it.
SnapshotResume(ok, fb) ==
    /\ snap.pending # {}
    /\ SnapshotStep
    /\ LET r == camera_snapshot_resumed(snap.cached,
                                        CHOOSE t0 \in snap.pending : TRUE, ok, fb)
       IN /\ snap' = [snap EXCEPT !.cached = r.cached, !.pending = {}]
          /\ last' = [NoLast EXCEPT !.kind = "snapshot_resumed", !.ent = "camera",
                                    !.result = r.result, !.calls = r.calls,
                                    !.reports = <<snap.cached, snap.pending>>,
                                    !.changed = TRUE]

\* The camera monitor after construction, the clock at 0.
SnapshotInit ==
    /\ focus = "snapshot"
    /\ connected = TRUE
    /\ Constructed
    /\ remote_client = "setup"
    /\ client = TRUE
    /\ configured = TRUE
    /\ entities = Units
    /\ EngineConfig

SnapshotNext ==
    \/ ClockTick
    \/ \E known \in BOOLEAN, so \in SnapshotOutcomes : SnapshotRequest(known, so)
    \/ \E ok \in BOOLEAN, fb \in BOOLEAN : SnapshotResume(ok, fb)

SnapshotSpec == SnapshotInit /\ [][SnapshotNext]_vars

\* ------------------------------------------------------------- properties
AwaitingStop(i) == handler[i].pc = "await_stop"

\* C1: whatever the interleaving of power-on, power-off, subscribe, disconnect
\* and polling passes, an entity has at most one polling task that has not
\* finished, and a task that has not finished is the one the entity's
\* _polling_task refers to -- also when a start() ran while a stop() was parked
\* at its await.
C1_AtMostOneLoop ==
    \A e \in Entities :
       /\ Cardinality(Unfinished(e)) <= 1
       /\ \A t \in Unfinished(e) : polling_task[e] = t

\* C2: a stop() that found a running loop and cancelled it goes on only when
\* that task has finished, and it does go on, wherever the loop was parked: in
\* its sleep, in the sleep after a failed pass, or inside a fetch.
C2_StopAwaitsLoop ==
    /\ [](last.awaited # "unfinished")
    /\ [](\A i \in HandlerIds : AwaitingStop(i) => task[handler[i].wait].cancel)
    /\ \A i \in HandlerIds : AwaitingStop(i) ~> ~AwaitingStop(i)

\* A stop() has returned after the loop it cancelled ended.
C2_Witness == last.awaited = "done" /\ last.kind \in {"command", "disconnect"}

\* C3: a SELECT_SOURCE whose source is the one already selected returns OK,
\* fetches nothing from the device, changes no attribute and pushes nothing,
\* on the dashboard and on the camera entity.
C3_SameSourceIsNoOp ==
    /\ \A e \in Entities : route(e, SELECT_SOURCE) = "select"
    /\ (last.kind = "command" /\ last.ent \in Entities /\ last.route = "select"
          /\ last.src = last.was)
         => /\ last.result = OK
            /\ last.fetches = 0
            /\ ~last.changed
            /\ last.pushes = 0

\* A camera selection of the camera that is shown has returned.
C3_Witness ==
    /\ last.kind = "command" /\ last.ent = "camera" /\ last.route = "select"
    /\ last.src = CamName /\ last.was = CamName /\ last.result = OK

Denylist ==
    {"play_pause", "stop", "shuffle", "repeat", "next", "previous",
     "fast_forward", "rewind", "seek", "record", "my_recordings", "eject",
     "open_close"}

\* C5: every identifier of the denylist takes the suppressed branch of the
\* dashboard and of the camera handler, and that branch returns OK with the
\* current source, the attributes, the lifecycle state and the polling task
\* handle as they were, no device call and no push.
C5_DenylistIsInert ==
    /\ \A e \in Entities, cmd \in Denylist : route(e, cmd) = "suppressed"
    /\ (last.kind = "command" /\ last.ent \in Entities
          /\ last.route = "suppressed")
         => /\ last.result = OK
            /\ ~last.changed
            /\ last.fetches = 0
            /\ last.pushes = 0

\* A denylisted command was answered by an entity that is playing with a loop.
C5_Witness ==
    /\ last.kind = "command" /\ last.ent \in Entities
    /\ last.route = "suppressed" /\ last.result = OK
    /\ polling_task[last.ent] # 0 /\ state[last.ent] = PLAYING

\* C6: a SELECT_SOURCE with no params, without the source key or with an empty
\* source returns BAD_REQUEST, on the dashboard and on the camera, and changes
\* no current source, attribute or polling task and pushes nothing.
C6_MissingSourceIsBadRequest ==
    (/\ last.kind = "command" /\ last.ent \in Entities /\ last.route = "select"
     /\ last.src \in {"<noparams>", "<empty>", "<nokey>", ""})
       => /\ last.result = BAD_REQUEST
          /\ ~last.changed
          /\ last.fetches = 0
          /\ last.pushes = 0

\* A selection with an empty source value was refused.
C6_Witness ==
    /\ last.kind = "command" /\ last.ent \in Entities /\ last.route = "select"
    /\ last.src = "" /\ last.result = BAD_REQUEST

NamedCommands == {SELECT_SOURCE, ON, OFF, VOLUME_UP, VOLUME_DOWN} \cup Denylist

OfferedNames == SourceNames \cup {AllCameras, CamName}

C12_DisconnectStopsEverything ==
    last.kind = "on_disconnect" =>
        /\ \A e \in Entities : Unfinished(e) = {}
        /\ UnfinishedMonitors = {}
        /\ last.reports = <<DISCONNECTED>>

\* ------------------------------------------------------------- C13
\* C13: every execution of on_connect reports CONNECTING first and then exactly
\* one final state, CONNECTED or ERROR, which is the device state it leaves;
\* the final state is CONNECTED exactly when the device client exists and is
\* connected when the handler ends.
C13_ConnectReportsOneFinalState ==
    last.kind = "on_connect" =>
        /\ Len(last.reports) = 2
        /\ last.reports[1] = CONNECTING
        /\ last.reports[2] \in {CONNECTED, ERROR}
        /\ device_state = last.reports[2]
        /\ (last.reports[2] = CONNECTED) <=> (client /\ connected)

\* on_connect found a client that was not connected, its connect() failed and
\* ERROR was reported.
C13_Witness ==
    /\ last.kind = "on_connect"
    /\ last.reports = <<CONNECTING, ERROR>>
    /\ client /\ ~connected
    /\ device_state = ERROR

\* ------------------------------------------------------------- C14
\* C14: at most one monitoring task is unfinished at any time, it is the one
\* _monitoring_task refers to, and on_subscribe_entities creates one only when
\* none is unfinished.
C14_AtMostOneHealthCheck ==
    /\ Cardinality(UnfinishedMonitors) <= 1
    /\ \A m \in UnfinishedMonitors : monitoring_task = m
    /\ (last.kind = "on_subscribe" /\ last.calls = 1) => last.running = 0

\* ------------------------------------------------------------- C15
\* C15: while the client is connected, the pass of the monitoring loop whose
\* health check is the third consecutive failure calls the reconnection once, a
\* pass that leaves the counter below three calls none, and a successful health
\* check resets the counter to zero.
C15_ThirdFailureReconnects ==
    (last.kind = "health" /\ client /\ connected) =>
        /\ (last.src = "empty" /\ last.was = max_failures - 1) => last.calls = 1
        /\ last.failures < max_failures => last.calls = 0
        /\ last.src = "data" => last.failures = 0

\* ------------------------------------------------------------- C16
\* C16: the remote makes a device call only for a SEND_CMD that names BEEP_ON,
\* BEEP_OFF, SYSTEM_RESTART or SYSTEM_SHUTDOWN while it holds a client that is
\* connected; a SEND_CMD with any other name is answered with a failure and
\* without device call; ON, OFF and the identifiers it does not know make no
\* device call.
C16_OnlyAllowlistedReachDevice ==
    (last.kind = "command" /\ last.ent = "remote") =>
        /\ last.calls > 0 =>
                /\ last.route = SEND_CMD
                /\ last.src \in SYSTEM_COMMANDS
                /\ remote_client # None /\ connected
        /\ (last.route = SEND_CMD /\ last.src \notin SYSTEM_COMMANDS) =>
                /\ last.calls = 0
                /\ last.result \in {SERVER_ERROR, BAD_REQUEST}
                /\ Truthy(ParamSource(last.src)) /\ last.src # Malformed
                        => last.result = SERVER_ERROR
        /\ last.route # SEND_CMD => last.calls = 0

\* A remote holding a connected client was sent a command name that is not one
\* of the four and answered with the server error.
C16_Witness ==
    /\ last.kind = "command" /\ last.ent = "remote"
    /\ last.route = SEND_CMD /\ last.src = "OTHER"
    /\ remote_client # None /\ connected
    /\ last.result = SERVER_ERROR /\ last.calls = 0

\* ------------------------------------------------------------- C17
\* C17: a remote that holds no client, or one that is not connected, answers
\* every SEND_CMD with a failure, without an exception leaving the handler and
\* without a device call; once update_client has given it a connected client,
\* a SEND_CMD naming one of the four commands makes its device call and is
\* answered with success (with the server error when the device call raises).
C17_PlaceholderFailsUntilBound ==
    (last.kind = "command" /\ last.ent = "remote" /\ last.route = SEND_CMD) =>
        /\ (remote_client = None \/ ~connected) =>
                /\ last.result \in {SERVER_ERROR, BAD_REQUEST}
                /\ last.calls = 0
        /\ (remote_client = "updated" /\ connected
                /\ last.src \in SYSTEM_COMMANDS) =>
                /\ last.calls = 1
                /\ last.raised = "none" => last.result = OK
                /\ last.raised = "device_error" => last.result = SERVER_ERROR

\* A remote that got its client from update_client made the device call of
\* one of the four commands and answered with success.
C17_Witness ==
    /\ last.kind = "command" /\ last.ent = "remote"
    /\ last.route = SEND_CMD /\ last.src \in SYSTEM_COMMANDS
    /\ remote_client = "updated" /\ connected
    /\ last.result = OK /\ last.calls = 1

\* ------------------------------------------------------------- C18
\* C18: after a pass of an entity's polling loop made while the client is not
\* connected, the entity's lifecycle state is paused or unavailable, not
\* playing, and the loop is still running.
C18_DisconnectIsSurfaced ==
    (last.kind = "tick" /\ ~connected) =>
        /\ state[last.ent] \in {PAUSED, UNAVAILABLE}
        /\ Unfinished(last.ent) # {}

\* ------------------------------------------------------------------ C19
\* The keys of the registry get_enabled_sources returned.
RegistryKeys == {enabled[i] : i \in 1..Len(enabled)}

\* The registry has just been built from the configuration as it is.
RegistryBuilt == last.kind = "get_enabled_sources"

\* C19: for every combination of feature flags and detected packages, the
\* registry holds the Docker source exactly when the docker flag is enabled
\* (set, or missing and so defaulted to set) and the Docker package was
\* detected, and the surveillance source exactly when the surveillance flag is
\* enabled and the SurveillanceStation package was detected.
C19_PackageSourcesNeedFlagAndPackage ==
    RegistryBuilt =>
        /\ "DOCKER_STATUS" \in RegistryKeys
             <=> (flag(features, "docker_monitoring") /\ "Docker" \in packages)
        /\ "SURVEILLANCE_STATUS" \in RegistryKeys
             <=> (flag(features, "surveillance_monitoring")
                  /\ "SurveillanceStation" \in packages)

\* A registry built with both packages detected, the docker flag set and the
\* surveillance flag cleared: the Docker source is in, surveillance is not.
C19_Witness ==
    /\ RegistryBuilt
    /\ packages = {"Docker", "SurveillanceStation"}
    /\ "surveillance_monitoring" \in DOMAIN features
    /\ ~features["surveillance_monitoring"]
    /\ "DOCKER_STATUS" \in RegistryKeys
    /\ "SURVEILLANCE_STATUS" \notin RegistryKeys

\* ------------------------------------------------------------------ C20
\* "Core system monitoring (always available)": the keys the registry starts
\* from, the baseline of system overview and storage.
BaselineKeys == {"SYSTEM_OVERVIEW", "STORAGE_STATUS"}

EnhancedKeySet == {EnhancedKeys[i] : i \in 1..Len(EnhancedKeys)}

\* The registry has just been built with enhanced_monitoring enabled and no
\* package detected.
EnhancedNoPackages ==
    /\ RegistryBuilt
    /\ flag(features, "enhanced_monitoring")
    /\ packages = {}

\* C20 as stated: such a registry holds exactly the baseline keys and the eleven
\* enhanced keys, and neither the Docker key nor the surveillance key.
C20_ExactlyBaselinePlusEnhanced ==
    EnhancedNoPackages =>
        /\ RegistryKeys = BaselineKeys \cup EnhancedKeySet
        /\ "DOCKER_STATUS" \notin RegistryKeys
        /\ "SURVEILLANCE_STATUS" \notin RegistryKeys

\* C20: a registry built with enhanced_monitoring enabled and no package
\* detected holds exactly system overview, storage, services, the network key
\* when network_monitoring is enabled, the security key when
\* security_monitoring is enabled, and the eleven enhanced keys; it holds
\* neither the Docker key nor the surveillance key, whatever the docker and
\* surveillance flags are.
C20_CorePlusEnhancedNoPackageKeys ==
    EnhancedNoPackages =>
        /\ RegistryKeys =
              BaselineKeys \cup {"SERVICES_STATUS"}
              \cup (IF flag(features, "network_monitoring")
                    THEN {"NETWORK_STATS"} ELSE {})
              \cup (IF flag(features, "security_monitoring")
                    THEN {"SECURITY_STATUS"} ELSE {})
              \cup EnhancedKeySet
        /\ Cardinality(EnhancedKeySet) = 11
        /\ EnhancedKeySet \cap (BaselineKeys \cup {"SERVICES_STATUS", "NETWORK_STATS",
                                                  "SECURITY_STATUS"}) = {}
        /\ "DOCKER_STATUS" \notin RegistryKeys
        /\ "SURVEILLANCE_STATUS" \notin RegistryKeys

\* Such a registry with network and security monitoring cleared and both
\* package flags set: fourteen keys, the services key among them.
C20_Witness ==
    /\ EnhancedNoPackages
    /\ features = [network_monitoring |-> FALSE, security_monitoring |-> FALSE,
                   enhanced_monitoring |-> TRUE, docker_monitoring |-> TRUE,
                   surveillance_monitoring |-> TRUE]
    /\ Cardinality(RegistryKeys) = 14
    /\ "SERVICES_STATUS" \in RegistryKeys

\* ------------------------------------------------------------------ C21
\* C21: in every registry the build can produce the display names are pairwise
\* distinct, and the reverse lookup of _update_current_data (display name ->
\* key, over the entity's source list) applied to the display name of a key of
\* the registry gives that key back.
C21_DisplayNamesRoundTrip ==
    RegistryBuilt =>
        /\ \A i, j \in 1..Len(enabled) :
              i # j => DisplayName(enabled[i]) # DisplayName(enabled[j])
        /\ \A i \in 1..Len(enabled) :
              SourceKeyIn(DashboardSources(features, packages),
                          DisplayName(enabled[i])) = enabled[i]

\* The largest registry: every flag enabled and both packages detected,
\* eighteen keys, the two cache sources among them.
C21_Witness ==
    /\ RegistryBuilt
    /\ Len(enabled) = 18
    /\ DashboardSources(features, packages) = enabled
    /\ SourceKeyIn(enabled, "Cache Performance") = "CACHE_PERFORMANCE"
    /\ SourceKeyIn(enabled, "SSD Cache") = "CACHE_STATUS"

\* ------------------------------------------------------------------ C22
\* C22: for every source key of the registry and every record the fetch can
\* return, the title and the subtitle a polling pass leaves are each at most
\* max_length (80) long, longer text having been cut and ended with "...".
C22_LinesWithinMaxLength ==
    last.kind = "tick" /\ focus = "display" =>
        /\ shown.title.len <= max_length
        /\ shown.subtitle.len <= max_length

\* ------------------------------------------------------------------ C23
CacheStep == last.kind \in {"cache_tick", "cache_format"}

\* C23: for every record whose cache_enabled is false or missing the cache
\* formatter shows the disabled indicator ("SSD Cache - Disabled"), and neither
\* get_cache_status nor the formatter divides by a total cache size of zero,
\* also for a device whose caches are there with a total size of 0.
C23_DisabledShownNoZeroDivision ==
    CacheStep =>
        /\ shown.cache_enabled # "true" => shown.note = "disabled"
        /\ 0 \notin shown.divisors

\* A fetch + format for a device that reports a cache of total size 0: the
\* record says enabled, no division was made.
C23_Witness ==
    /\ last.kind = "cache_tick"
    /\ shown.cache_enabled = "true"
    /\ shown.cache_size = 0
    /\ shown.divisors = {}
    /\ shown.note = "status"

\* ------------------------------------------------------------------ C24
\* The cache entry a snapshot request found, and the time of the request.
EntryFound == last.reports[1]
RequestedAt == last.reports[2]

\* C24: a snapshot that was fetched successfully is cached under the time T of
\* the request that fetched it; a request for the camera at a time t with
\* t - T < 30 returns the cached snapshot without a device call, a request at
\* t - T >= 30, like one that finds no entry, makes a device call; a retrieval
\* that fails leaves the cache entry as it was, and a successful one is stored
\* under the time of its request.
C24_SnapshotCachedForThirtySeconds ==
    /\ last.kind = "snapshot" /\ last.changed =>
          \A t \in RequestedAt :
             /\ (\E ts \in EntryFound : t - ts < FreshFor)
                   => last.result = "cached" /\ last.calls = 0
                      /\ snap.cached = EntryFound
             /\ (\A ts \in EntryFound : t - ts >= FreshFor) => last.calls = 1
    /\ last.kind \in {"snapshot", "snapshot_resumed"} =>
          /\ last.result \in {"", "pending"} => snap.cached = EntryFound
          /\ last.result = "snapshot" => snap.cached = RequestedAt

\* An entry of time T = 1 is found at T + 29 and returned, and at T + 30 it is
\* not and the device is called again.
C24_Witness ==
    /\ last.kind = "snapshot"
    /\ EntryFound = {1}
    /\ RequestedAt = {31}
    /\ last.calls = 1
    /\ last.result = "snapshot"

\* ------------------------------------------------------------------ C25
\* The positions of a loop between two passes, and inside a pass.
BetweenTicks == {"new", "sleep", "backoff"}

\* C25: the passes of one polling loop do not overlap. A loop is at one place at
\* a time; a pass begins only at the loop's start or at the end of a sleep;
\* the loop reaches its sleep only at the end of a pass that has pushed the
\* attributes exactly once (a dashboard pass after at most one fetch); a pass parked in its
\* fetch goes on to that push, or ends with the task, before the loop does
\* anything else.
C25_TicksDoNotOverlap ==
    [][\A t \in TaskIds :
          task'[t].pc # task[t].pc /\ task[t].pc # "none" /\ task'[t].pc # "none" =>
             /\ task[t].pc \in BetweenTicks
                   => task'[t].pc \in {"sleep", "backoff", "fetch", "done"}
             /\ task[t].pc = "fetch" => task'[t].pc \in {"sleep", "done"}
             /\ task[t].pc # "done"
             /\ task'[t].pc = "sleep" =>
                   /\ last'.kind = "tick"
                   /\ last'.ent = task[t].ent
                   /\ last'.pushes = 1
                   /\ task[t].ent = "dashboard" => last'.fetches <= 1]_vars

\* A dashboard pass has fetched, formatted and pushed and its loop sleeps, with
\* a handler of the same entity parked meanwhile.
C25_Witness ==
    /\ last.kind = "tick"
    /\ last.ent = "dashboard"
    /\ last.fetches = 1
    /\ last.formats = 1
    /\ last.pushes = 1
    /\ \E t \in TaskIds : task[t].ent = "dashboard" /\ task[t].pc = "sleep"
    /\ \E i \in HandlerIds : handler[i].kind # "idle"

\* ------------------------------------------------------------------ C26
\* C26: whenever a step has pushed the dashboard's attributes, a title and
\* subtitle that were formatted from a fetched record were formatted from the
\* record of the source that SOURCE names in that push.
C26_PushedTextIsOfCurrentSource ==
    /\ last.ent = "dashboard"
    /\ last.pushes >= 1
    /\ last.payload = "attributes"
    /\ text["dashboard"].kind \in {"data", "fail"}
    => text["dashboard"].src = SourceKey(attr_source["dashboard"])

\* ------------------------------------------------------------------ C27
\* C27: a pass of the dashboard loop resolves the current source when it
\* begins: with the client connected and a fetch operation bound to the key of
\* the current source it makes exactly one fetch, the one bound to that key,
\* whatever was selected before; otherwise it makes none.
C27_TickFetchesCurrentSource ==
    last.kind = "tick" /\ last.ent = "dashboard" =>
       LET key == SourceKey(current["dashboard"])
       IN IF connected /\ key \in FetcherKeys
          THEN last.fetches = 1 /\ last.fetched = key
          ELSE last.fetches = 0 /\ last.fetched = None

\* A pass after the switch from the initial source has fetched the security
\* status.
C27_Witness ==
    /\ last.kind = "tick"
    /\ last.ent = "dashboard"
    /\ current["dashboard"] = "SECURITY_STATUS"
    /\ last.fetches = 1
    /\ last.fetched = "SECURITY_STATUS"

\* ------------------------------------------------------------------ C28
\* C28: a pass of the dashboard loop that did not raise is followed by a sleep
\* of the interval the polling-interval mapping holds for the selected source,
\* that is under the source's registry key in lower case (security_status for
\* Security Status), and of the default 15 only when the mapping has no such
\* entry.
C28_SleepsConfiguredInterval ==
    last.kind = "tick" /\ last.ent = "dashboard" /\ last.src \in FetcherKeys =>
       last.interval = polling_intervals(lower(last.src))

\* ------------------------------------------------------------------ C29
\* C29: the dashboard's power-off has returned, its state is PAUSED and no loop
\* of it is running; whatever command other than power-on is handled next, the
\* state is still PAUSED and no loop is running when that command returns.
C29_PausedUntilPowerOn ==
    [][/\ last.kind = "command" /\ last.ent = "dashboard" /\ last.route = "off"
       /\ state["dashboard"] = PAUSED
       /\ Unfinished("dashboard") = {}
       /\ last'.kind = "command" /\ last'.ent = "dashboard" /\ last'.route # "on"
       => /\ state'["dashboard"] = PAUSED
          /\ \A t \in TaskIds : task'[t].ent = "dashboard" => task'[t].pc = "done"]_vars

\* ------------------------------------------------------------------ C30
\* C30: in every state the dashboard's current source and its SOURCE attribute
\* are display names of the entity's source list.
C30_CurrentSourceIsListed ==
    /\ current["dashboard"] \in SourceNames
    /\ attr_source["dashboard"] \in SourceNames

\* ------------------------------------------------------------------ C31
\* C31: a power-on command whose start() did nothing because the client was not
\* connected or, on the camera, no camera was known, returns with the entity
\* as it was: the lifecycle state and every other attribute are unchanged, so
\* the state is not PLAYING by that command while no loop exists.
C31_IdlePowerOnLeavesState ==
    /\ last.kind = "command"
    /\ last.route = "on"
    /\ startObs.called
    /\ ~startObs.busy
    /\ ~startObs.conn \/ (startObs.ent = "camera" /\ ~startObs.cams)
    => ~last.changed

\* ------------------------------------------------------------------ C32
\* C32: on_connect with a client that exists and is not connected calls the
\* post-reboot reconnection first, and the standard connect() only after that
\* call has failed.
C32_PostRebootBeforeStandard ==
    last.kind = "on_connect" /\ last.was = "disconnected" =>
       last.attempts \in {<<"reconnect_after_reboot">>,
                          <<"reconnect_after_reboot", "connect">>}

\* ------------------------------------------------------------------ C33
\* C33: a pass of the monitoring loop that leaves the failure counter below the
\* threshold of three is followed by a sleep of 30; a pass that leaves it at
\* the threshold or above, the reconnection not having succeeded, is followed
\* by a longer sleep.
C33_LongerWaitAfterThreshold ==
    last.kind = "health" =>
       IF last.failures >= max_failures
       THEN last.interval > MonitorInterval
       ELSE last.interval = MonitorInterval

\* ------------------------------------------------------------------ C34
\* Every flag the registry reads is in the configuration and cleared.
AllFlagsCleared == \A k \in FlagNames : k \in DOMAIN features /\ ~features[k]

\* C34 as the claim words it: the registry holds the system overview and the
\* storage source, the network and the security source exactly when their flags
\* are enabled, and the services source only when a flag enables it, so not
\* when every flag is cleared.
C34_ServicesByFlag ==
    RegistryBuilt =>
        /\ BaselineKeys \subseteq RegistryKeys
        /\ "NETWORK_STATS" \in RegistryKeys <=> flag(features, "network_monitoring")
        /\ "SECURITY_STATUS" \in RegistryKeys <=> flag(features, "security_monitoring")
        /\ AllFlagsCleared => "SERVICES_STATUS" \notin RegistryKeys

\* C34: for every combination of flags and detected packages the registry
\* holds the system overview, the storage and the services source, the network
\* source exactly when network_monitoring is enabled and the security source
\* exactly when security_monitoring is enabled, a missing flag counting as
\* enabled.
C34_ServicesAlwaysNetworkSecurityByFlag ==
    RegistryBuilt =>
        /\ BaselineKeys \subseteq RegistryKeys
        /\ "SERVICES_STATUS" \in RegistryKeys
        /\ "NETWORK_STATS" \in RegistryKeys <=> flag(features, "network_monitoring")
        /\ "SECURITY_STATUS" \in RegistryKeys <=> flag(features, "security_monitoring")

\* A registry built with every flag cleared: the baseline and the services
\* source, neither network nor security.
C34_Witness ==
    /\ RegistryBuilt
    /\ AllFlagsCleared
    /\ RegistryKeys = BaselineKeys \cup {"SERVICES_STATUS"}

\* ------------------------------------------------------------------ C35
\* C35: the source list the dashboard keeps has at most 25 entries; it is the
\* whole registry when that has at most 25 sources, and otherwise exactly the
\* first 25 of the registry, in registration order.
C35_AtMostTwentyFiveInOrder ==
    last.kind = "limit" =>
        /\ Len(enabled) <= SourceLimit
        /\ Len(last.reports) <= SourceLimit => enabled = last.reports
        /\ Len(last.reports) > SourceLimit =>
              /\ Len(enabled) = SourceLimit
              /\ \A i \in 1..SourceLimit : enabled[i] = last.reports[i]

\* A registry of 27 sources was cut to its first 25.
C35_Witness ==
    /\ last.kind = "limit"
    /\ Len(last.reports) = 27
    /\ Len(enabled) = 25
    /\ enabled[25] = last.reports[25]

\* ------------------------------------------------------------------ C36
\* A display update of the camera entity, made by a pass of its loop, a
\* selection or a refresh, has just been pushed with a single camera selected.
SingleCameraShown ==
    /\ last.ent = "camera"
    /\ \/ last.kind = "tick"
       \/ last.kind = "command" /\ last.route \in {"select", "refresh"}
    /\ last.pushes >= 1
    /\ last.payload = "attributes"
    /\ current["camera"] = CamName

\* C36: after a display update with a single camera selected the image is the
\* snapshot only if that camera is online, and in every other case it is the
\* status icon of that camera's status.
C36_SnapshotOrStatusIcon ==
    SingleCameraShown =>
        /\ image["camera"] = "snapshot" => cameras.known /\ cameras.status = 1
        /\ image["camera"] # "snapshot"
              => image["camera"] = get_status_icon(CamName, cameras)

\* ------------------------------------------------------------------ C37
\* The text sub occurs in the text s.
Contains(sub, s) ==
    \E i \in 1..(Len(s) - Len(sub) + 1) : SubSeq(s, i, i + Len(sub) - 1) = sub

\* C37: with unit celsius, a thermal fetch of system_temp 45, status optimal
\* and fan mode auto gives a display that contains "45.0" followed by the
\* degree sign and C, and contains "auto"; a record that is empty or has
\* system_temp 0 gives the sensor-unavailable text.
C37_ThermalDisplay ==
    /\ last.kind = "thermal_tick" /\ last.was = "celsius"
       /\ last.fetched.system_temp = 45 /\ last.fetched.status = "optimal"
       /\ last.fetched.fan_mode = "auto"
          => /\ Contains(<<"4", "5", ".", "0", "U+00B0", "C">>, last.reports[2])
             /\ Contains(Chars("auto"), last.reports[2])
    /\ last.kind \in {"thermal_tick", "thermal_format"}
       /\ (last.fetched.shape = "empty" \/ last.fetched.system_temp = 0)
          => last.reports = <<Chars("Thermal Monitor"),
                              Chars("Temperature sensor unavailable")>>

\* ------------------------------------------------------------------ C38
\* C38: after every setup completion at most one dashboard polling loop is
\* running, and the completion that has just created a new dashboard has left
\* no loop of the dashboard before it running.
C38_ReplacedDashboardLoopStopped ==
    /\ Cardinality(Unfinished("dashboard")) <= 1
    /\ last.kind = "setup_complete" => Unfinished("dashboard") = {}

====
